---- MODULE Spec2Model ----
(***************************************************************************)
(* WebProwler: the planning loop (runPlanner), its live wiring in the      *)
(* service worker (runTask / runReplay / STOP_TASK) and the task recorder. *)
(*                                                                         *)
(* Two implementations of runPlanner exist in the repository:              *)
(*   PlannerIndex   src/src/lib/planner/index.ts                           *)
(*   PlannerPart004 src/unnamed/part_004  (JSON retry, API retry, smart    *)
(*                  trimming, snapshot retry)                              *)
(* Each run carries the implementation it executes in its impl field.      *)
(*                                                                         *)
(* One action of the model is one resumption of an async function: it      *)
(* consumes the result of the awaited call named by pc and runs the code   *)
(* up to the next await. Fixed delays (setTimeout) are folded into the     *)
(* await that follows them.                                                *)
(***************************************************************************)
EXTENDS Integers, Sequences, FiniteSets, TLC

\* ─── Bounds of the model (not program constants) ───

\* longest plan the model lets the LLM return
MaxSteps == 2
\* number of RUN_TASK / REPLAY_RECORDING messages the side panel sends
MaxRuns == 2
\* unparseable LLM outputs per run, all of them in one planning iteration
MaxParseFailures == 3
\* LLM responses served to live runs (all runs together)
MaxLiveResponses == 2
\* recordings started / steps recorded per recording when the recorder is driven
\* on its own
MaxStarted == 2
MaxRecorded == 2
\* steps of a recording handed to replayRecording on its own
MaxReplayLen == 3
\* elements a page may ever hold
MaxElements == 3
\* wrapper elements nested around a button
MaxWrappers == 2

\* ─── Program constants ───

MAX_ITERATIONS == 15
MAX_JSON_RETRIES == 2
MAX_API_RETRIES == 5
MAX_RECORDINGS == 50

PlannerIndex == "src/lib/planner/index.ts"
PlannerPart004 == "unnamed/part_004"
Impls == {PlannerIndex, PlannerPart004}

Runs == 1..MaxRuns

\* ─── Actions and plans ───

\* the kinds the modelled LLM combines freely: one that needs verification by
\* its kind, one that does not
PlanKinds == {"click", "type"}

\* needsVerification as it stands in the JSON text: "true", "false", or "absent"
RawSteps == [kind : PlanKinds, needsVerification : {"true", "false"}]

Step(kind, flag) == [kind |-> kind, needsVerification |-> flag]

\* further plans: the other kinds, and steps that omit needsVerification
FurtherPlans ==
    { <<Step("navigate", "false"), Step("select", "false")>>,
      <<Step("scroll", "false"), Step("wait", "false")>>,
      <<Step("read", "false"), Step("select", "true")>>,
      <<Step("click", "absent"), Step("type", "absent")>>,
      <<Step("type", "absent"), Step("scroll", "absent")>>,
      <<Step("type", "absent"), Step("wait", "absent")>>,
      <<Step("select", "absent"), Step("read", "false")>> }

RECURSIVE SeqsUpTo(_, _)
SeqsUpTo(S, n) ==
    IF n = 0 THEN {<<>>}
    ELSE LET shorter == SeqsUpTo(S, n - 1)
         IN shorter \cup {Append(s, x) : s \in {t \in shorter : Len(t) = n - 1}, x \in S}

\* what llm.chat resolves to: the content, described by what parsePlan looks at
\* (reasoning "" stands for a reasoning that is missing or not a string)
Content(reasoning, steps) ==
    [json |-> TRUE, reasoning |-> reasoning, stepsIsArray |-> TRUE, steps |-> steps]

NotJson == [json |-> FALSE, reasoning |-> "", stepsIsArray |-> FALSE, steps |-> <<>>]

\* the reasoning of a plan that signals completion
Reasonings == {"Done. Clicked Go.", "Nothing to do."}

WellFormedContents ==
    {Content(IF s = <<>> THEN r ELSE "next steps", s) :
        s \in SeqsUpTo(RawSteps, MaxSteps) \cup FurtherPlans, r \in Reasonings}

MalformedContents ==
    { NotJson,
      Content("", <<>>),
      [json |-> TRUE, reasoning |-> "next steps", stepsIsArray |-> FALSE, steps |-> <<>>],
      Content("next steps", <<[kind |-> "missing", needsVerification |-> "absent"]>>),
      Content("next steps", <<[kind |-> "hover", needsVerification |-> "true"]>>) }

Contents == WellFormedContents \cup MalformedContents

\* what the LLM of the live extension is let to answer: done, a click to be
\* verified before the next step, two chained steps, or text that is not JSON
LiveContents ==
    { Content("Done. Clicked Go.", <<>>),
      Content("next steps", <<Step("click", "false"), Step("type", "false")>>),
      Content("next steps", <<Step("type", "false"), Step("click", "false")>>),
      NotJson }

\* what the LLM answers in the runs whose snapshots are told apart: plans with
\* ref-bearing actions, alone, after a checkpoint and after a read
TrackedContents ==
    { Content("Done. Clicked Go.", <<>>),
      Content("next steps", <<Step("type", "false")>>),
      Content("next steps", <<Step("click", "false"), Step("type", "false")>>),
      Content("next steps", <<Step("read", "false"), Step("select", "false")>>) }

\* what the LLM answers in the runs whose token usage is followed
MeteredContents == LiveContents

\* response.usage: absent (<<>>) or the tokens of the call
Usages == { <<>>, <<[inputTokens |-> 3, outputTokens |-> 1]>> }

LiveApiErrors == {"API error 429: too many requests", "API error 401: invalid key"}

\* what llm.chat rejects with: an error message, described by the substrings
\* classifyError probes
ApiErrors ==
    { "API error 429: rate limit, input tokens per minute",
      "API error 429: too many requests",
      "API error 503",
      "API error 401: invalid key",
      "API error 400: max_tokens is too large for the model to generate" }

Probes(msg) ==
    CASE msg = "API error 429: rate limit, input tokens per minute"
            -> {"429", "rate", "tokens per minute", "input tokens per minute"}
      [] msg = "API error 429: too many requests" -> {"429"}
      [] msg = "API error 503" -> {"503"}
      [] msg = "API error 400: max_tokens is too large for the model to generate"
            -> {"rate"}
      [] OTHER -> {}

actionNeedsVerificationAlways(action) == TRUE

actionNeedsVerification(action) ==
    CASE action.kind = "click"    -> TRUE
      [] action.kind = "navigate" -> TRUE
      [] action.kind = "scroll"   -> TRUE
      [] action.kind = "type"     -> FALSE
      [] action.kind = "select"   -> FALSE
      [] action.kind = "read"     -> FALSE
      [] action.kind = "wait"     -> FALSE
      [] OTHER                    -> FALSE   \* undefined, falsy

validKinds == {"click", "type", "select", "scroll", "navigate", "read", "wait"}

\* parsePlan of unnamed/part_004: "ok" or the message of the Error it throws
parseError004(c) ==
    IF ~c.json THEN "SyntaxError"
    ELSE IF c.reasoning = "" THEN "Missing reasoning string in plan"
    ELSE IF ~c.stepsIsArray THEN "Missing steps array in plan"
    ELSE IF \E k \in 1..Len(c.steps) : c.steps[k].kind = "missing"
         THEN "Invalid step: missing action.kind"
    ELSE IF \E k \in 1..Len(c.steps) : c.steps[k].kind \notin validKinds
         THEN "Invalid action kind"
    ELSE "ok"

\* the plan parsePlan of unnamed/part_004 returns: needsVerification defaulted
parsePlan004(c) ==
    [reasoning |-> c.reasoning,
     steps |-> [k \in 1..Len(c.steps) |->
        [kind |-> c.steps[k].kind,
         needsVerification |->
            IF c.steps[k].needsVerification \in {"true", "false"}
            THEN c.steps[k].needsVerification
            ELSE IF actionNeedsVerification(c.steps[k]) THEN "true" ELSE "false"]]]

\* parsePlan of src/lib/planner/index.ts
parseErrorIndex(c) ==
    IF ~c.json THEN "SyntaxError"
    ELSE IF c.reasoning = "" \/ ~c.stepsIsArray THEN "Invalid plan format"
    ELSE "ok"

parsePlanIndex(c) == [reasoning |-> c.reasoning, steps |-> c.steps]

parseError(impl, c) == IF impl = PlannerPart004 THEN parseError004(c) ELSE parseErrorIndex(c)
parsePlan(impl, c) == IF impl = PlannerPart004 THEN parsePlan004(c) ELSE parsePlanIndex(c)

classifyError(msg) ==
    IF "429" \in Probes(msg) \/ "rate" \in Probes(msg)
    THEN IF \/ "tokens per minute" \in Probes(msg)
            \/ "input tokens per minute" \in Probes(msg)
            \/ "output tokens per minute" \in Probes(msg)
         THEN "tpm" ELSE "rpm"
    ELSE IF \/ "500" \in Probes(msg) \/ "502" \in Probes(msg) \/ "503" \in Probes(msg)
            \/ "529" \in Probes(msg) \/ "overloaded" \in Probes(msg)
         THEN "server" ELSE "fatal"

RECURSIVE Pow(_, _)
Pow(b, e) == IF e = 0 THEN 1 ELSE b * Pow(b, e - 1)

Min(a, b) == IF a <= b THEN a ELSE b

backoffMsUncapped(kind, attempt) ==
    CASE kind = "tpm"    -> (15000 * Pow(3, attempt)) \div Pow(2, attempt)
      [] kind = "rpm"    -> 5000 * Pow(2, attempt)
      [] kind = "server" -> 2000 * Pow(2, attempt)

\* Math.min(base * factor^attempt, cap), in whole milliseconds
backoffMs(kind, attempt) ==
    CASE kind = "tpm"    -> Min((15000 * Pow(3, attempt)) \div Pow(2, attempt), 65000)
      [] kind = "rpm"    -> Min(5000 * Pow(2, attempt), 60000)
      [] kind = "server" -> Min(2000 * Pow(2, attempt), 16000)

\* ─── Conversation ───

Msg(role, content) == [role |-> role, content |-> content]

SystemMsg == Msg("system", "SYSTEM_PROMPT")
TaskMsg == Msg("user", "buildUserMessage(task, snapshot)")
PlanMsg == Msg("assistant", "valid plan JSON")
BadMsg == Msg("assistant", "unparseable output")
CorrectiveMsg == Msg("user", "Your previous response was not valid JSON. ...")
\* a user turn built around buildVerificationMessage(action, snapshot); whether it
\* is the error turn, a checkpoint or the final pass is observed in lastTurn
FeedbackMsg == Msg("user", "... buildVerificationMessage(action, snapshot)")

\* content.includes('not valid JSON')
includesNotValidJSON(m) == m.content = CorrectiveMsg.content

\* Array.prototype.splice(start, deleteCount), start 0-based
splice(h, start, deleteCount) ==
    SubSeq(h, 1, start) \o SubSeq(h, start + deleteCount + 1, Len(h))

trimConversationFromThree(history, maxMessages) ==
    IF Len(history) <= maxMessages THEN history
    ELSE LET keepFromEnd == maxMessages - 2
             recentStart == Len(history) - keepFromEnd
         IN IF recentStart <= 2 THEN history
            ELSE splice(history, 3, recentStart - 2)

\* trimConversation(history, 14) of unnamed/part_004
trimConversation(history, maxMessages) ==
    IF Len(history) <= maxMessages THEN history
    ELSE LET keepFromEnd == maxMessages - 2
             recentStart == Len(history) - keepFromEnd
         IN IF recentStart <= 2 THEN history
            ELSE splice(history, 2, recentStart - 2)

\* the trim at the end of the loop body of src/lib/planner/index.ts
trimIndex(history) ==
    IF Len(history) > 12
    THEN splice(history, 1, Len(history) - 11)
    ELSE history

trim(impl, history) ==
    IF impl = PlannerPart004 THEN trimConversation(history, 14) ELSE trimIndex(history)

\* the while loop of getPlanFromLLM that removes corrective prompts
RECURSIVE popCorrective(_)
popCorrective(h) ==
    IF Len(h) > 1 /\ h[Len(h)].role = "user" /\ includesNotValidJSON(h[Len(h)])
    THEN popCorrective(SubSeq(h, 1, Len(h) - 1))
    ELSE h

\* ─── Terminal messages (onError), as the pieces the template strings join ───

MaxIterationsMsg ==
    <<"Max iterations (", ToString(MAX_ITERATIONS), ") reached. Task may be incomplete.">>
CannotReadMsg(e) ==
    <<"Cannot read page: ", e, ". The content script may not be loaded on this page.">>
FailedPlanPrefix(impl) ==
    IF impl = PlannerPart004 THEN "Failed to get plan: " ELSE "Failed to get plan from LLM: "
FailedPlanMsg(impl, e) == <<FailedPlanPrefix(impl), e>>
InvalidJsonMsg(lastParseError) ==
    <<"LLM returned invalid JSON after ", ToString(MAX_JSON_RETRIES + 1),
      " attempts. Last error: ", lastParseError>>
OnWaitMissingMsg == "onWait is not a function"

\* ─── Ref table of the page parser (unnamed/part_001) ───

\* the elements a page may ever hold
Elements == 1..MaxElements
\* null
NoElement == 0

\* elementsByRef.get(ref)?.deref() ?? null
resolveRef(byRef, gone, ref) ==
    IF ref \in DOMAIN byRef /\ byRef[ref] \notin gone THEN byRef[ref] ELSE NoElement

getOrCreateRefTrustsWeakMap(t, gone, el) ==
    IF t.refsByElement[el] # 0
    THEN t
    ELSE [refCounter |-> t.refCounter + 1,
          elementsByRef |-> Append(t.elementsByRef, el),
          refsByElement |-> [t.refsByElement EXCEPT ![el] = t.refCounter + 1]]

\* getOrCreateRef(el) on the table t = [refCounter, elementsByRef, refsByElement]
getOrCreateRef(t, gone, el) ==
    IF /\ t.refsByElement[el] # 0
       /\ resolveRef(t.elementsByRef, gone, t.refsByElement[el]) = el
    THEN t
    ELSE [refCounter |-> t.refCounter + 1,
          elementsByRef |-> Append(t.elementsByRef, el),
          refsByElement |-> [t.refsByElement EXCEPT ![el] = t.refCounter + 1]]

\* buildNode over the elements that get a ref
RECURSIVE buildNode(_, _, _)
buildNode(t, gone, els) ==
    IF els = <<>> THEN t
    ELSE buildNode(getOrCreateRef(t, gone, Head(els)), gone, Tail(els))

takeSnapshotKeepsCounter(t, gone, els) ==
    buildNode([t EXCEPT !.elementsByRef = [k \in 1..t.refCounter |-> NoElement]],
              gone, els)

\* takeSnapshot: refCounter = 0; elementsByRef.clear(); buildNode(root)
takeSnapshot(t, gone, els) ==
    buildNode([t EXCEPT !.refCounter = 0, !.elementsByRef = <<>>], gone, els)

\* ─── DOM action executor (src/src/content/actions.ts) ───

\* what kind of element each element of the page is
ElementKind(el) ==
    CASE el = 1 -> "select"
      [] el = 2 -> "input"
      [] el = 3 -> "math"       \* an Element that is not an HTMLElement
      [] OTHER -> "button"

isHTMLElement(el) == ElementKind(el) # "math"

\* an Action; the fields a kind does not have are left empty
Action(kind, ref, text, clear, value) ==
    [kind |-> kind, ref |-> ref, text |-> text, clear |-> clear, value |-> value]

\* the actions the content script may be sent
Actions ==
    { Action(kind, ref, "", FALSE, "") : kind \in {"click"}, ref \in 1..MaxElements }
    \cup { Action("type", ref, "x", clear, "") : ref \in 1..MaxElements, clear \in BOOLEAN }
    \cup { Action("select", ref, "", FALSE, "b") : ref \in 1..MaxElements }
    \cup { Action(kind, 0, "", FALSE, "") : kind \in {"scroll", "navigate", "read", "wait"} }

\* the value an element may hold when an action reaches it
Values == {"", "a"}

\* what a handler did: it returned or threw, the target's value, the events
Done(value, events) == [threw |-> "", value |-> value, events |-> events]
Threw(value, error) == [threw |-> error, value |-> value, events |-> <<>>]

\* getElement(ref): the error it throws, "" when it returns the element
getElement(el) ==
    IF el = NoElement THEN "Element not found (stale ref or removed from DOM)"
    ELSE IF ~isHTMLElement(el) THEN "Element is not an HTMLElement"
    ELSE ""

executeClick(el, value) ==
    IF getElement(el) # "" THEN Threw(value, getElement(el))
    ELSE Done(value, <<"pointerdown", "mousedown", "pointerup", "mouseup", "click">>)

\* el instanceof HTMLInputElement || el instanceof HTMLTextAreaElement
isTextField(el) == ElementKind(el) = "input"

\* executeType(ref, text, clear); editable: el.contentEditable === 'true', and
\* value is then the element's textContent
executeType(el, value, editable, text, clear) ==
    IF getElement(el) # "" THEN Threw(value, getElement(el))
    ELSE IF isTextField(el)
         THEN Done(IF clear THEN text ELSE value \o text,
                   (IF clear THEN <<"input">> ELSE <<>>) \o <<"input", "change">>)
    ELSE IF editable
         THEN Done(IF clear THEN text ELSE value \o text, <<"input">>)
         ELSE Done(value, <<>>)

executeSelectUnchecked(el, value, chosen) ==
    IF getElement(el) # "" THEN Threw(value, getElement(el))
    ELSE Done(chosen, <<"change">>)

executeSelect(el, value, chosen) ==
    IF getElement(el) # "" THEN Threw(value, getElement(el))
    ELSE IF ElementKind(el) # "select" THEN Threw(value, "Element is not a <select>")
    ELSE Done(chosen, <<"change">>)

\* executeAction(action) with el the element action.ref resolves to, value its
\* value and editable its contentEditable; the highlight calls only draw
executeAction(action, el, value, editable) ==
    LET did == CASE action.kind = "click" -> executeClick(el, value)
                 [] action.kind = "type" ->
                        executeType(el, value, editable, action.text, action.clear)
                 [] action.kind = "select" -> executeSelect(el, value, action.value)
                 [] OTHER -> Done(value, <<>>)
    IN [action |-> action,
        success |-> did.threw = "",
        error |-> did.threw,
        editable |-> editable,
        before |-> value,
        after |-> did.value,
        events |-> did.events]

\* ─── Page tree and its serialization (unnamed/part_001) ───

\* an element: its identity (NoElement when it never gets a ref), its tag, the
\* length of its own text, its child elements; frame is "" but for an iframe
Element(el, tag, text, children) ==
    [el |-> el, tag |-> tag, text |-> text, children |-> children, frame |-> ""]

\* an iframe without title, name or src. frame says what iframe.contentDocument
\* does: "document" (it is there, children holds its body), "null" (the getter
\* returns null) or "throws" (the access throws)
Iframe(el, frame, children) ==
    [el |-> el, tag |-> "iframe", text |-> 0, children |-> children, frame |-> frame]

\* the name of the node of an iframe that could not be read: '(cross-origin)'
CrossOriginName == Len("(cross-origin)")

\* TAG_TO_ROLE[tag] ?? ''
getRole(el) ==
    CASE el.tag = "button" -> "button"
      [] el.tag = "h1" -> "heading"
      [] OTHER -> ""

isInteractive(el) == el.tag \in {"a", "button", "input", "textarea", "select", "summary"}

\* getShallowText(el), as its length
getShallowText(el) == el.text

\* getAccessibleName(el), as its length
getAccessibleName(el) ==
    IF el.tag \in {"button", "a", "summary", "h1", "h2", "h3", "h4", "h5", "h6", "label"}
    THEN getShallowText(el) ELSE 0

\* buildNode returned null
NullNode ==
    [el |-> NoElement, role |-> "", tag |-> "", name |-> 0, interactive |-> FALSE,
     children |-> <<>>]

\* buildNode(el, depth, maxDepth, viewportOnly) on a page that is all visible;
\* the ref of a node is filled in from the ref table
RECURSIVE buildNodeAt(_, _, _)
RECURSIVE buildChildren(_, _, _)
buildChildren(els, depth, maxDepth) ==
    IF els = <<>> THEN <<>>
    ELSE LET childNode == buildNodeAt(Head(els), depth, maxDepth)
             others == buildChildren(Tail(els), depth, maxDepth)
         IN IF childNode = NullNode THEN others ELSE <<childNode>> \o others

buildNodeAt(el, depth, maxDepth) ==
    IF depth > maxDepth THEN NullNode
    ELSE IF el.tag = "iframe"
    THEN IF el.frame = "throws"
         THEN [el |-> el.el, role |-> "iframe", tag |-> "iframe",
               name |-> CrossOriginName, interactive |-> FALSE, children |-> <<>>]
         ELSE IF el.frame = "null" THEN NullNode
         ELSE LET iframeNode == buildNodeAt(el.children[1], depth + 1, maxDepth)
              IN IF iframeNode = NullNode THEN NullNode
                 ELSE [el |-> el.el, role |-> "iframe", tag |-> "iframe", name |-> 0,
                       interactive |-> FALSE, children |-> iframeNode.children]
    ELSE LET role == getRole(el)
             interactive == isInteractive(el)
             name == getAccessibleName(el)
             children == buildChildren(el.children, depth + 1, maxDepth)
             plain == role = "" /\ ~interactive /\ name = 0
         IN IF plain /\ Len(children) = 1 THEN children[1]
            ELSE IF plain /\ Len(children) = 0 /\ getShallowText(el) = 0 THEN NullNode
            ELSE [el |-> el.el, role |-> role, tag |-> el.tag, name |-> name,
                  interactive |-> interactive, children |-> children]

\* the elements buildNode calls getOrCreateRef for, in the order of the calls
\* (an element's children are built before it gets its ref)
RECURSIVE refOrder(_)
RECURSIVE refOrderAll(_)
refOrderAll(nodes) ==
    IF nodes = <<>> THEN <<>> ELSE refOrder(Head(nodes)) \o refOrderAll(Tail(nodes))

refOrder(node) ==
    refOrderAll(node.children)
        \o (IF node.interactive \/ node.role # "" THEN <<node.el>> ELSE <<>>)

\* the number of decimal digits of n
Digits(n) == IF n < 10 THEN 1 ELSE IF n < 100 THEN 2 ELSE 3

\* one line of the tree: pad, role or tag, "name" cut to 80 characters, [ref]
Line(node, indent, refs) ==
    [indent |-> indent,
     el |-> node.el,     \* the element the line stands for (not printed)
     label |-> IF node.role # "" THEN node.role ELSE node.tag,
     name |-> IF node.name > 80 THEN 78 ELSE node.name,
     ref |-> IF node.interactive \/ node.role # "" THEN refs[node.el] ELSE 0]

\* line.length
LineLength(line) ==
    2 * line.indent + Len(line.label)
        + (IF line.name > 0 THEN 1 + line.name + 2 ELSE 0)
        + (IF line.ref > 0 THEN 1 + 3 + Digits(line.ref) ELSE 0)

\* serializeNode(node, indent, lines, maxChars, charCount);
\* acc = [lines, count] stands for lines and charCount.count
RECURSIVE serializeNode(_, _, _, _, _)
RECURSIVE serializeChildren(_, _, _, _, _)
serializeChildren(nodes, indent, acc, maxChars, refs) ==
    IF nodes = <<>> THEN acc
    ELSE serializeChildren(Tail(nodes), indent,
                           serializeNode(Head(nodes), indent, acc, maxChars, refs),
                           maxChars, refs)

serializeNode(node, indent, acc, maxChars, refs) ==
    IF acc.count >= maxChars THEN acc
    ELSE LET line == Line(node, indent, refs)
         IN serializeChildren(node.children, indent + 1,
                              [lines |-> Append(acc.lines, line),
                               count |-> acc.count + LineLength(line) + 1],
                              maxChars, refs)

\* lines.join('\n').length
RECURSIVE JoinedLength(_)
JoinedLength(lines) ==
    IF lines = <<>> THEN 0
    ELSE LineLength(Head(lines))
            + (IF Len(lines) > 1 THEN 1 + JoinedLength(Tail(lines)) ELSE 0)

RECURSIVE countInteractive(_)
RECURSIVE countInteractiveAll(_)
countInteractiveAll(nodes) ==
    IF nodes = <<>> THEN 0
    ELSE countInteractive(Head(nodes)) + countInteractiveAll(Tail(nodes))

countInteractive(node) ==
    (IF node.interactive THEN 1 ELSE 0) + countInteractiveAll(node.children)

\* the PageSnapshot takeSnapshot(options) returns for the page root, without its
\* timestamp, and the ref table it leaves
PageSnapshot(root, options, t, gone) ==
    LET tree == buildNodeAt(root, 0, options.maxDepth)
        table == takeSnapshot(t, gone, IF tree = NullNode THEN <<>> ELSE refOrder(tree))
        text == serializeNode(tree, 0, [lines |-> <<>>, count |-> 0],
                              options.maxChars, table.refsByElement)
    IN [table |-> table,
        url |-> "location.href",
        title |-> "document.title",
        empty |-> tree = NullNode,      \* tree: '(empty page)'
        lines |-> IF tree = NullNode THEN <<>> ELSE text.lines,
        length |-> IF tree = NullNode THEN Len("(empty page)")
                   ELSE JoinedLength(text.lines),
        interactiveCount |-> IF tree = NullNode THEN 0 ELSE countInteractive(tree)]

\* ─── State ───

VARIABLES
    run,              \* per invocation of runTask / runReplay / runPlanner: its locals
    isRunning,        \* service-worker.ts: let isRunning
    abortController,  \* service-worker.ts: let abortController (NoController = null)
    activeRecording,  \* recorder/index.ts: let activeRecording
    recordings,       \* chrome.storage.local['recordings']
    saves,            \* saveRecording calls in flight
    nextRecId,        \* stands for Date.now() + Math.random() in recording ids
    op,               \* the recorder function called last (recorder on its own)
    served,           \* LLM responses served to live runs so far
    invoked,          \* the store operations called so far, each with the ids of the
                      \* operations then in flight (overlapping calls on their own)
    document,         \* the page: its elements that buildNode gives a ref, in the
                      \* order buildNode reaches them
    refCounter,       \* part_001: let refCounter
    elementsByRef,    \* part_001: Map ref -> WeakRef<Element>; ref `e${n}` is index n
    refsByElement,    \* part_001: WeakMap Element -> ref (0: no entry)
    collected,        \* elements the garbage collector has reclaimed
    handed,           \* the refs of the last two snapshots, latest first
    resolved,         \* the last resolveRef call: <<ref, element>>
    body,             \* document.body as a tree of elements (snapshots on their own)
    taken,            \* the last two takeSnapshot calls, latest first: page, options
                      \* and the PageSnapshot returned
    stepResult        \* the last executeAction call of the content script: action,
                      \* StepResult, the target's value before and after, events

vars == <<run, isRunning, abortController, activeRecording, recordings,
          saves, nextRecId, op, served, invoked,
          document, refCounter, elementsByRef, refsByElement, collected, handed, resolved,
          body, taken, stepResult>>

\* the content script's parser (unnamed/part_001) and what it is observed to do
parser == <<document, refCounter, elementsByRef, refsByElement, collected, handed, resolved,
            body, taken, stepResult>>

worker == <<isRunning, abortController>>

NoController == [run |-> 0, aborted |-> FALSE]
recorder == <<activeRecording, recordings, saves, nextRecId>>

NoRecording == [id |-> 0, owner |-> 0, steps |-> <<>>]

IdleRun ==
    [ kind |-> "none",            \* "task" (runTask), "replay" (runReplay), "planner"
      pc |-> "idle",              \* the await the invocation is suspended at
      impl |-> PlannerPart004,    \* the runPlanner it executes
      wired |-> FALSE,            \* callbacks are the service worker's (live run)
      iteration |-> 0,
      conversationHistory |-> <<>>,
      plan |-> <<>>,
      i |-> 0,
      needsReplan |-> FALSE,
      jsonAttempt |-> 0,
      lastParseError |-> "",
      attempt |-> 0,
      result |-> "none",          \* executeActionOnTab: the executor's StepResult
      recording |-> NoRecording,  \* runReplay: const recording
      response |-> <<>>,          \* the content llm.chat resolved with in the last step
      rejection |-> <<>>,         \* the message llm.chat rejected with in the last step
      metered |-> FALSE,          \* the provider reports token usage in this run
      tracked |-> FALSE,          \* the run's snapshots are told apart
      table |-> <<>>,             \* the snapshot that last rebuilt the content script's refs
      shown |-> <<>>,             \* the snapshot whose text was last put before the model
      totalUsage |-> [input |-> 0, output |-> 0],   \* runPlanner: totalUsage
      spent |-> [input |-> 0, output |-> 0],        \* tokens the provider has reported
      reported |-> <<>>,          \* onUsage's arguments in the last step
      snapshot |-> "none",        \* how the loop-top getSnapshot settled in the last
                                  \* step: "ok", "failed"
      wait |-> <<>>,              \* onRateLimit's last call in this request:
                                  \* <<kind, waitMs, attempt + 1>>
      completedWith |-> "",       \* the argument of onComplete
      owedPlan |-> FALSE,         \* a failed step ended the last iteration
      \* observations, not program state
      outcome |-> "none",         \* "complete", "error" (onError), "rejected" (threw)
      errorMsg |-> <<>>,
      calls |-> <<>>,             \* collaborator / observer calls made by the last step
      nComplete |-> 0,
      nError |-> 0,
      acted |-> 0,                \* plans with steps accepted so far
      executed |-> 0,             \* executeAction calls for the current plan
      pushed |-> 0,               \* user turns appended after the current plan
      lastTurn |-> "none",        \* which turn that was: "error", "checkpoint", "final"
      described |-> -1,           \* the step whose action that turn describes
      failedAt |-> -1,            \* index of the step of the current plan that failed
      verifiedAt |-> -1,          \* index of the step that triggered a checkpoint
      parseFailures |-> 0,
      stopped |-> FALSE ]         \* STOP_TASK was handled while this run was in flight

\* ─── runPlanner, as functions on a run's locals ───

Call(rec, name) == [rec EXCEPT !.calls = Append(@, name)]

OnError(rec, msg) ==
    Call([rec EXCEPT !.outcome = "error", !.errorMsg = msg, !.nError = @ + 1,
                     !.pc = "returned"], "onError")

OnCompleteThenError(rec, reasoning) ==
    Call(Call([rec EXCEPT !.outcome = "error", !.nComplete = @ + 1, !.nError = @ + 1,
                          !.completedWith = reasoning, !.errorMsg = MaxIterationsMsg,
                          !.pc = "returned"], "onComplete"), "onError")

\* callbacks.onComplete(plan.reasoning); return
OnComplete(rec, reasoning) ==
    Call([rec EXCEPT !.outcome = "complete", !.nComplete = @ + 1,
                     !.completedWith = reasoning, !.pc = "returned"], "onComplete")

\* an exception leaves runPlanner
Reject(rec, e) == [rec EXCEPT !.outcome = "rejected", !.errorMsg = <<e>>, !.pc = "threw"]

\* describeAction(step.action) for the error turn and the checkpoint,
\* describeAction(plan.steps[plan.steps.length - 1].action) for the final pass
PushTurn(rec, turn) ==
    [rec EXCEPT !.conversationHistory = Append(@, FeedbackMsg), !.pushed = @ + 1,
                !.lastTurn = turn,
                !.described = IF turn = "final" THEN Len(rec.plan) - 1 ELSE rec.i]

\* end of the loop body: trim, iteration++, loop condition
EndIterationIndexOffByOne(rec) ==
    LET r1 == [rec EXCEPT !.conversationHistory = trim(rec.impl, @),
                          !.iteration = @ + 1,
                          !.plan = <<>>, !.i = 0, !.needsReplan = FALSE]
    IN IF r1.iteration <= MAX_ITERATIONS
       THEN Call([r1 EXCEPT !.pc = "getSnapshot"], "getSnapshot")
       ELSE OnError(r1, MaxIterationsMsg)

\* (plan, i and needsReplan are locals of the loop body: they end with it)
EndIteration(rec) ==
    LET r1 == [rec EXCEPT !.conversationHistory = trim(rec.impl, @),
                          !.iteration = @ + 1,
                          !.plan = <<>>, !.i = 0, !.needsReplan = FALSE]
    IN IF r1.iteration < MAX_ITERATIONS
       THEN Call([r1 EXCEPT !.pc = "getSnapshot"], "getSnapshot")
       ELSE OnError(r1, MaxIterationsMsg)

\* getPlanFromLLM up to its first llm.chat (index.ts: the llm.chat of step 3)
BeginPlan(rec) ==
    Call([rec EXCEPT !.jsonAttempt = 0, !.lastParseError = "", !.attempt = 0,
                     !.wait = <<>>, !.owedPlan = FALSE, !.pc = "llm.chat"], "llm.chat")

\* steps 1-2 of the loop body once the snapshot is there
AfterSnapshot(rec) ==
    BeginPlan(IF rec.iteration = 0
              THEN [rec EXCEPT !.conversationHistory = Append(@, TaskMsg)]
              ELSE rec)

StartStepExecutesFirst(rec, i) ==
    Call(Call([rec EXCEPT !.i = i, !.pc = "executeAction", !.executed = @ + 1,
                          !.result = "none"],
              "executeAction"), "onStepStart")

\* callbacks.onStepStart(step, i); await callbacks.executeAction(step.action)
StartStep(rec, i) ==
    Call(Call([rec EXCEPT !.i = i, !.pc = "executeAction", !.executed = @ + 1,
                          !.result = "none"],
              "onStepStart"), "executeAction")

\* getPlanFromLLM returned (its locals end with it): onPlan, the completion
\* check, and the first step
AcceptPlanNoCompletion(rec, plan) ==
    LET r1 == Call([rec EXCEPT !.plan = plan.steps, !.jsonAttempt = 0, !.attempt = 0,
                               !.wait = <<>>, !.lastParseError = ""], "onPlan")
    IN IF Len(plan.steps) = 0
       THEN EndIteration(r1)
       ELSE StartStep([r1 EXCEPT !.needsReplan = FALSE, !.acted = @ + 1,
                                 !.executed = 0, !.pushed = 0, !.failedAt = -1,
                                 !.verifiedAt = -1, !.lastTurn = "none",
                                 !.described = -1], 0)

AcceptPlan(rec, plan) ==
    LET r1 == Call([rec EXCEPT !.plan = plan.steps, !.jsonAttempt = 0, !.attempt = 0,
                               !.wait = <<>>, !.lastParseError = ""], "onPlan")
    IN IF Len(plan.steps) = 0
       THEN OnComplete(r1, plan.reasoning)
       ELSE StartStep([r1 EXCEPT !.needsReplan = FALSE, !.acted = @ + 1,
                                 !.executed = 0, !.pushed = 0, !.failedAt = -1,
                                 !.verifiedAt = -1, !.lastTurn = "none",
                                 !.described = -1], 0)

OnContentOneMoreRetry(rec, c) ==
    LET err == parseError(rec.impl, c) IN
    IF rec.impl = PlannerIndex
    THEN LET r1 == [rec EXCEPT !.conversationHistory =
                        Append(@, IF err = "ok" THEN PlanMsg ELSE BadMsg)]
         IN IF err = "ok" THEN AcceptPlan(r1, parsePlan(rec.impl, c))
            ELSE OnError([r1 EXCEPT !.parseFailures = @ + 1],
                         FailedPlanMsg(rec.impl, err))
    ELSE IF err = "ok"
         THEN AcceptPlan(
                [rec EXCEPT !.conversationHistory =
                    Append(IF rec.jsonAttempt > 0 THEN popCorrective(@) ELSE @, PlanMsg)],
                parsePlan(rec.impl, c))
         ELSE LET r1 == [rec EXCEPT !.lastParseError = err,
                                    !.parseFailures = @ + 1,
                                    !.conversationHistory = Append(@, BadMsg)]
              IN IF rec.jsonAttempt = MAX_JSON_RETRIES + 1
                 THEN OnError(r1, <<FailedPlanPrefix(rec.impl)>> \o InvalidJsonMsg(err))
                 ELSE Call([r1 EXCEPT !.jsonAttempt = @ + 1, !.attempt = 0, !.wait = <<>>,
                                      !.conversationHistory = Append(@, CorrectiveMsg)],
                           "llm.chat")

AddUsageOfLastCall(rec, usage) ==
    IF usage = <<>> THEN rec
    ELSE Call([rec EXCEPT
                 !.totalUsage = [input |-> usage[1].inputTokens,
                                 output |-> usage[1].outputTokens],
                 !.reported = <<usage[1].inputTokens, usage[1].outputTokens>>],
              "onUsage")

\* if (response.usage) { totalUsage += ...; onUsage(totalUsage.input, totalUsage.output) }
AddUsage(rec, usage) ==
    IF usage = <<>> THEN rec
    ELSE LET total == [input |-> rec.totalUsage.input + usage[1].inputTokens,
                       output |-> rec.totalUsage.output + usage[1].outputTokens]
         IN Call([rec EXCEPT !.totalUsage = total,
                             !.reported = <<total.input, total.output>>],
                 "onUsage")

\* llm.chat resolved with content c
OnContent(rec, c) ==
    LET err == parseError(rec.impl, c) IN
    IF rec.impl = PlannerIndex
    THEN LET r1 == [rec EXCEPT !.conversationHistory =
                        Append(@, IF err = "ok" THEN PlanMsg ELSE BadMsg)]
         IN IF err = "ok" THEN AcceptPlan(r1, parsePlan(rec.impl, c))
            ELSE OnError([r1 EXCEPT !.parseFailures = @ + 1],
                         FailedPlanMsg(rec.impl, err))
    ELSE IF err = "ok"
         THEN AcceptPlan(
                [rec EXCEPT !.conversationHistory =
                    Append(IF rec.jsonAttempt > 0 THEN popCorrective(@) ELSE @, PlanMsg)],
                parsePlan(rec.impl, c))
         ELSE LET r1 == [rec EXCEPT !.lastParseError = err,
                                    !.parseFailures = @ + 1,
                                    !.conversationHistory = Append(@, BadMsg)]
              IN IF rec.jsonAttempt = MAX_JSON_RETRIES
                 THEN OnError(r1, <<FailedPlanPrefix(rec.impl)>> \o InvalidJsonMsg(err))
                 ELSE Call([r1 EXCEPT !.jsonAttempt = @ + 1, !.attempt = 0, !.wait = <<>>,
                                      !.conversationHistory = Append(@, CorrectiveMsg)],
                           "llm.chat")

OnApiErrorOneMoreRetry(rec, msg) ==
    IF rec.impl = PlannerIndex
    THEN OnError(rec, FailedPlanMsg(rec.impl, msg))
    ELSE IF classifyError(msg) = "fatal" \/ rec.attempt = MAX_API_RETRIES + 1
         THEN OnError(rec, FailedPlanMsg(rec.impl, msg))
         ELSE Call(Call([rec EXCEPT
                           !.attempt = @ + 1,
                           !.wait = <<classifyError(msg),
                                      backoffMs(classifyError(msg), rec.attempt),
                                      rec.attempt + 1>>],
                        "onRateLimit"), "llm.chat")

\* llm.chat rejected with message msg
OnApiError(rec, msg) ==
    IF rec.impl = PlannerIndex
    THEN OnError(rec, FailedPlanMsg(rec.impl, msg))
    ELSE IF classifyError(msg) = "fatal" \/ rec.attempt = MAX_API_RETRIES
         THEN OnError(rec, FailedPlanMsg(rec.impl, msg))
         ELSE IF rec.wired
              \* the service worker's callbacks object has no onRateLimit
              THEN OnError(rec, FailedPlanMsg(rec.impl, OnWaitMissingMsg))
              ELSE Call(Call([rec EXCEPT
                                !.attempt = @ + 1,
                                !.wait = <<classifyError(msg),
                                           backoffMs(classifyError(msg), rec.attempt),
                                           rec.attempt + 1>>],
                             "onRateLimit"), "llm.chat")

shouldVerifyTrustsModel(step) == step.needsVerification = "true"

shouldVerify(step) == step.needsVerification = "true" \/ actionNeedsVerification(step)

\* executeAction resolved with {success}
AfterAction(rec, success) ==
    LET r1 == Call(rec, "onStepComplete")
        step == rec.plan[rec.i + 1]
        last == Len(rec.plan) - 1
    IN IF ~success
       THEN Call([r1 EXCEPT !.pc = "getSnapshot.error", !.failedAt = rec.i],
                 "getSnapshot")
       ELSE IF shouldVerify(step) /\ rec.i < last
       THEN Call([r1 EXCEPT !.pc = "getSnapshot.verify", !.verifiedAt = rec.i], "getSnapshot")
       ELSE IF rec.i < last
       THEN StartStep(r1, rec.i + 1)
       ELSE Call([r1 EXCEPT !.pc = "getSnapshot.final"], "getSnapshot")

\* the snapshot for the error turn was taken (ok) or threw
AfterErrorSnapshot(rec, ok) ==
    IF ~ok /\ rec.impl = PlannerIndex
    THEN Reject(rec, "getSnapshot failed")
    ELSE LET r1 == EndIteration(PushTurn([rec EXCEPT !.needsReplan = TRUE], "error"))
         IN [r1 EXCEPT !.owedPlan = (r1.pc = "getSnapshot")]

\* the checkpoint snapshot, first attempt
AfterVerifySnapshot(rec, ok) ==
    IF ok THEN EndIteration(PushTurn([rec EXCEPT !.needsReplan = TRUE], "checkpoint"))
    ELSE IF rec.impl = PlannerIndex THEN Reject(rec, "getSnapshot failed")
    ELSE Call([rec EXCEPT !.pc = "getSnapshot.verify.retry"], "getSnapshot")

\* the checkpoint snapshot, second attempt (placeholder when it throws)
AfterVerifyRetry(rec, ok) ==
    EndIteration(PushTurn([rec EXCEPT !.needsReplan = TRUE], "checkpoint"))

AfterFinalRetryPlaceholderDropped(rec, ok) ==
    IF ok THEN EndIteration(PushTurn(rec, "final")) ELSE EndIteration(rec)

\* the final verification pass
AfterFinalSnapshot(rec, ok) ==
    IF ok THEN EndIteration(PushTurn(rec, "final"))
    ELSE IF rec.impl = PlannerIndex THEN Reject(rec, "getSnapshot failed")
    ELSE Call([rec EXCEPT !.pc = "getSnapshot.final.retry"], "getSnapshot")

AfterFinalRetry(rec, ok) == EndIteration(PushTurn(rec, "final"))

\* the snapshot at the top of the loop body
AfterTopSnapshot(rec, ok) ==
    IF ok THEN AfterSnapshot(rec)
    ELSE IF rec.impl = PlannerIndex THEN Reject(rec, "getSnapshot failed")
    ELSE Call([rec EXCEPT !.pc = "getSnapshot.retry"], "getSnapshot")

AfterTopRetryPlaceholder(rec, ok) == AfterSnapshot(rec)

AfterTopRetry(rec, ok) ==
    IF ok THEN AfterSnapshot(rec)
    ELSE OnError(rec, CannotReadMsg("getSnapshot failed"))

\* runPlanner(task, llm, callbacks) up to its first await
StartPlanner(rec) ==
    Call([rec EXCEPT !.conversationHistory = <<SystemMsg>>, !.iteration = 0,
                     !.pc = "getSnapshot"], "getSnapshot")

\* ─── Recorder (src/src/lib/recorder/index.ts) ───

startRecording(id, task) == [id |-> id, owner |-> task, steps |-> <<>>]

\* by: the run that executed the action (an observation, not a field of RecordedStep)
recordStep(active, action, success, by) ==
    IF active = NoRecording THEN active
    ELSE [active EXCEPT !.steps =
            Append(@, [action |-> action, success |-> success, by |-> by])]

\* recording.steps.some(s => s.success)
someSuccessAlways(recording) == TRUE

someSuccess(recording) == \E k \in 1..Len(recording.steps) : recording.steps[k].success

unshiftUncapped(list, recording) == <<recording>> \o list

\* saveRecording between its two awaits: unshift, then keep the most recent
unshiftCapped(list, recording) ==
    LET all == <<recording>> \o list
    IN IF Len(all) > MAX_RECORDINGS THEN SubSeq(all, 1, MAX_RECORDINGS) ELSE all

SaveOp(recording, waiter) ==
    [recording |-> recording, phase |-> "get", list |-> <<>>, waiter |-> waiter]

\* recordings.filter(r => r.id !== id)
RECURSIVE filterOut(_, _)
filterOut(list, id) ==
    IF list = <<>> THEN <<>>
    ELSE (IF Head(list).id # id THEN <<Head(list)>> ELSE <<>>) \o filterOut(Tail(list), id)

\* a deleteRecording(id) call in flight
DeleteOp(id) ==
    [recording |-> [NoRecording EXCEPT !.id = id], phase |-> "delete.get",
     list |-> <<>>, waiter |-> 0]

\* stopRecording up to its first await; waiter is the run that awaits it (0: nobody)
stopRecording(waiter) ==
    /\ activeRecording' = NoRecording
    /\ saves' = IF activeRecording # NoRecording /\ someSuccess(activeRecording)
                THEN saves \cup {SaveOp(activeRecording, waiter)}
                ELSE saves
    /\ UNCHANGED <<recordings, nextRecId>>

\* stopRecording has something to await
Saving == activeRecording # NoRecording /\ someSuccess(activeRecording)

\* ─── One resumption of a run ───

\* the observations of the last iteration are kept until the run's next step
Fresh(rec) ==
    IF rec.pc = "getSnapshot"
    THEN [rec EXCEPT !.calls = <<>>, !.response = <<>>, !.rejection = <<>>,
                     !.snapshot = "none", !.reported = <<>>,
                     !.executed = 0, !.pushed = 0,
                     !.failedAt = -1, !.verifiedAt = -1, !.lastTurn = "none",
                     !.described = -1]
    ELSE [rec EXCEPT !.calls = <<>>, !.response = <<>>, !.rejection = <<>>,
                     !.snapshot = "none", !.reported = <<>>]

\* the finally block of runTask / runReplay; the locals of the invocation end
\* with it, what was observed of it stays
Ended(rec) ==
    [IdleRun EXCEPT !.kind = rec.kind, !.wired = rec.wired, !.pc = "done",
                    !.outcome = rec.outcome, !.result = rec.result,
                    !.nComplete = rec.nComplete, !.nError = rec.nError]

Finally(r, rec) ==
    /\ run' = [run EXCEPT ![r] = Ended(rec)]
    /\ isRunning' = FALSE
    /\ abortController' = IF rec.kind = "task" THEN NoController ELSE abortController

\* the run's locals after the step; when runPlanner has returned or thrown inside
\* runTask, the code that follows it: await stopRecording(), broadcast, finally
Commit(r, new) ==
    /\ IF new.wired /\ new.kind = "task" /\ new.pc \in {"returned", "threw"}
       THEN /\ stopRecording(r)
            /\ IF Saving
               THEN /\ run' = [run EXCEPT ![r] = [new EXCEPT !.pc = "stopRecording"]]
                    /\ UNCHANGED worker
               ELSE Finally(r, new)
       ELSE /\ run' = [run EXCEPT ![r] =
                   [new EXCEPT !.pc = IF @ \in {"returned", "threw"} THEN "done" ELSE @]]
            /\ UNCHANGED <<worker, recorder>>
    /\ UNCHANGED <<op, parser>>

IsPlanner(r) == run[r].kind \in {"planner", "task"}

\* callbacks.getSnapshot() settled: when it resolved, takeSnapshot has rebuilt
\* the content script's ref table (part_001: refCounter = 0; elementsByRef.clear());
\* shows: its text goes into the conversation; orPlaceholder: when it threw, a
\* placeholder goes there instead
TookSnapshot(rec, which, ok, shows, orPlaceholder) ==
    IF ~rec.tracked THEN rec
    ELSE [rec EXCEPT
            !.table = IF ok THEN <<rec.iteration, which>> ELSE @,
            !.shown = IF ok /\ shows THEN <<rec.iteration, which>>
                      ELSE IF ~ok /\ orPlaceholder THEN <<rec.iteration, "placeholder">>
                      ELSE @]

\* executeAction settled: a successful 'read' has run takeSnapshot in the page
\* (actions.ts:150-155)
RanAction(rec, success) ==
    IF rec.tracked /\ success /\ rec.plan[rec.i + 1].kind = "read"
    THEN [rec EXCEPT !.table = <<rec.iteration, "read">>]
    ELSE rec

\* callbacks.getSnapshot() at the top of the loop body settled
GetSnapshot(r) ==
    /\ IsPlanner(r) /\ run[r].pc = "getSnapshot"
    /\ \E ok \in BOOLEAN :
        Commit(r, AfterTopSnapshot(
                    TookSnapshot(
                      [Fresh(run[r]) EXCEPT !.snapshot = IF ok THEN "ok" ELSE "failed"],
                      "top", ok, run[r].iteration = 0, FALSE), ok))
    /\ UNCHANGED <<served, invoked>>

GetSnapshotRetry(r) ==
    /\ IsPlanner(r) /\ run[r].pc = "getSnapshot.retry"
    /\ \E ok \in BOOLEAN :
        Commit(r, AfterTopRetry(
                    TookSnapshot(
                      [Fresh(run[r]) EXCEPT !.snapshot = IF ok THEN "ok" ELSE "failed"],
                      "top", ok, run[r].iteration = 0, FALSE), ok))
    /\ UNCHANGED <<served, invoked>>

Serve(r) ==
    /\ IF run[r].wired
       THEN served < MaxLiveResponses /\ served' = served + 1
       ELSE UNCHANGED served
    /\ UNCHANGED invoked

\* llm.chat(conversationHistory) resolved
LlmChatContent(r) ==
    /\ IsPlanner(r) /\ run[r].pc = "llm.chat"
    /\ Serve(r)
    /\ \E c \in IF run[r].wired THEN LiveContents
                 ELSE IF run[r].metered THEN MeteredContents
                 ELSE IF run[r].tracked THEN TrackedContents ELSE Contents,
          usage \in IF run[r].metered THEN Usages ELSE {<<>>} :
        /\ parseError(run[r].impl, c) # "ok" =>
              /\ run[r].parseFailures < MaxParseFailures
              /\ run[r].parseFailures = 0 \/ run[r].jsonAttempt > 0
        /\ Commit(r, OnContent(
                        AddUsage([Fresh(run[r]) EXCEPT
                                    !.response = <<c>>,
                                    !.spent = IF usage = <<>> THEN @
                                              ELSE [input |-> @.input + usage[1].inputTokens,
                                                    output |-> @.output + usage[1].outputTokens]],
                                 usage),
                        c))

\* llm.chat(conversationHistory) rejected
LlmChatError(r) ==
    /\ IsPlanner(r) /\ run[r].pc = "llm.chat"
    /\ Serve(r)
    /\ \E msg \in IF run[r].wired \/ run[r].metered \/ run[r].tracked
                   THEN LiveApiErrors ELSE ApiErrors :
        Commit(r, OnApiError([Fresh(run[r]) EXCEPT !.rejection = <<msg>>], msg))

\* callbacks.executeAction(step.action) resolved, callbacks as the PlannerCallbacks
\* interface states them: a StepResult
ExecuteAction(r) ==
    /\ run[r].kind = "planner" /\ run[r].pc = "executeAction"
    /\ \E success \in BOOLEAN :
        Commit(r, AfterAction(RanAction(Fresh(run[r]), success), success))
    /\ UNCHANGED <<served, invoked>>

ErrorSnapshot(r) ==
    /\ IsPlanner(r) /\ run[r].pc = "getSnapshot.error"
    /\ \E ok \in BOOLEAN : Commit(r, AfterErrorSnapshot(TookSnapshot(Fresh(run[r]), "error", ok, TRUE, TRUE), ok))
    /\ UNCHANGED <<served, invoked>>

VerifySnapshot(r) ==
    /\ IsPlanner(r) /\ run[r].pc = "getSnapshot.verify"
    /\ \E ok \in BOOLEAN : Commit(r, AfterVerifySnapshot(TookSnapshot(Fresh(run[r]), "verify", ok, TRUE, FALSE), ok))
    /\ UNCHANGED <<served, invoked>>

VerifySnapshotRetry(r) ==
    /\ IsPlanner(r) /\ run[r].pc = "getSnapshot.verify.retry"
    /\ \E ok \in BOOLEAN : Commit(r, AfterVerifyRetry(TookSnapshot(Fresh(run[r]), "verify", ok, TRUE, TRUE), ok))
    /\ UNCHANGED <<served, invoked>>

FinalSnapshot(r) ==
    /\ IsPlanner(r) /\ run[r].pc = "getSnapshot.final"
    /\ \E ok \in BOOLEAN : Commit(r, AfterFinalSnapshot(TookSnapshot(Fresh(run[r]), "final", ok, TRUE, FALSE), ok))
    /\ UNCHANGED <<served, invoked>>

FinalSnapshotRetry(r) ==
    /\ IsPlanner(r) /\ run[r].pc = "getSnapshot.final.retry"
    /\ \E ok \in BOOLEAN : Commit(r, AfterFinalRetry(TookSnapshot(Fresh(run[r]), "final", ok, TRUE, TRUE), ok))
    /\ UNCHANGED <<served, invoked>>

\* ─── Service worker (src/src/background/service-worker.ts) ───

\* a slot for the next invocation: the lowest unused one
NextSlot(r) == run[r].kind = "none" /\ \A q \in 1..(r - 1) : run[q].kind # "none"

\* past the isRunning check and the pre-flight, not yet through finally
Accepted(rec) == rec.pc \notin {"idle", "done", "loadSettings", "getRecordingById"}

Busy(rec, kind) ==
    [rec EXCEPT !.kind = kind, !.wired = TRUE, !.pc = "done", !.outcome = "busy",
                !.errorMsg = <<"Already running a task">>]

\* onMessage RUN_TASK: runTask(task) up to its first await
RunTask(r) ==
    /\ NextSlot(r)
    /\ \E impl \in Impls :
        run' = [run EXCEPT ![r] =
                 IF isRunning
                 THEN Busy(run[r], "task")
                 ELSE [run[r] EXCEPT !.kind = "task", !.wired = TRUE, !.impl = impl,
                                     !.pc = "loadSettings"]]
    /\ UNCHANGED <<worker, recorder, op, served, invoked, parser>>

NoApiKeyMsg == <<"No API key configured. Open settings to add one.">>

LoadSettingsKeyCheckedLate(r) ==
    /\ run[r].kind = "task" /\ run[r].pc = "loadSettings"
    /\ \E apiKey \in {"", "sk-..."} :
        /\ isRunning' = TRUE
        /\ abortController' = [run |-> r, aborted |-> FALSE]
        /\ run' = [run EXCEPT ![r] =
               IF apiKey = ""
               THEN [@ EXCEPT !.pc = "done", !.outcome = "no api key",
                              !.errorMsg = NoApiKeyMsg]
               ELSE [@ EXCEPT !.pc = "getActiveTabId"]]
    /\ UNCHANGED <<recorder, op, served, invoked, parser>>

\* loadSettings() resolved: the API key check, then isRunning = true
LoadSettings(r) ==
    /\ run[r].kind = "task" /\ run[r].pc = "loadSettings"
    /\ \E apiKey \in {"", "sk-..."} :
        IF apiKey = ""
        THEN /\ run' = [run EXCEPT ![r] =
                    [@ EXCEPT !.pc = "done", !.outcome = "no api key",
                              !.errorMsg = NoApiKeyMsg]]
             /\ UNCHANGED worker
        ELSE /\ run' = [run EXCEPT ![r] = [@ EXCEPT !.pc = "getActiveTabId"]]
             /\ isRunning' = TRUE
             /\ abortController' = [run |-> r, aborted |-> FALSE]
    /\ UNCHANGED <<recorder, op, served, invoked, parser>>

\* getActiveTabId() / getActiveTabUrl() settled: startRecording, then runPlanner
GetActiveTab(r) ==
    /\ run[r].kind = "task" /\ run[r].pc = "getActiveTabId"
    /\ \E ok \in BOOLEAN :
        IF ok
        THEN /\ activeRecording' = startRecording(nextRecId, r)
             /\ nextRecId' = nextRecId + 1
             /\ run' = [run EXCEPT ![r] = StartPlanner(Fresh(@))]
             /\ UNCHANGED <<worker, recordings, saves>>
        ELSE Commit(r, Reject(Fresh(run[r]), "No active tab found"))
    /\ UNCHANGED <<op, served, invoked, parser>>

NavigationKinds == {"navigate", "click"}

\* sendToTab(tabId, 'EXECUTE_ACTION', action) settled inside executeActionOnTab:
\* a response with success === false is thrown
sendExecuteAction(r, response) ==
    LET rec == [Fresh(run[r]) EXCEPT !.result = response]
        action == run[r].plan[run[r].i + 1]
    IN IF response = "unreachable" THEN Reject(rec, "Content script failed to load.")
       ELSE IF response = "failure" THEN Reject(rec, "result.error")
       ELSE IF action.kind \in NavigationKinds
            THEN [rec EXCEPT !.pc = "waitForPage"]
            ELSE [rec EXCEPT !.pc = "getActiveTabUrl"]

ExecuteActionOnTab(r) ==
    /\ run[r].kind = "task" /\ run[r].pc = "executeAction"
    /\ \E response \in {"success", "failure", "unreachable"} :
        Commit(r, sendExecuteAction(r, response))
    /\ UNCHANGED <<served, invoked>>

\* the wait after click / navigate: waitForTabReady or WAIT_FOR_DOM_STABLE
WaitForPage(r) ==
    /\ run[r].kind = "task" /\ run[r].pc = "waitForPage"
    /\ \E ok \in BOOLEAN :
        Commit(r, IF ok THEN [Fresh(run[r]) EXCEPT !.pc = "getActiveTabUrl"]
                  ELSE Reject(Fresh(run[r]), "Content script failed to load."))
    /\ UNCHANGED <<served, invoked>>

\* getActiveTabUrl() resolved in callbacks.executeAction: recordStep, return result
RecordStep(r) ==
    /\ run[r].kind = "task" /\ run[r].pc = "getActiveTabUrl"
    /\ LET new == AfterAction(Fresh(run[r]), run[r].result = "success")
       IN /\ activeRecording' = recordStep(activeRecording, run[r].plan[run[r].i + 1].kind,
                                           run[r].result = "success", r)
          /\ run' = [run EXCEPT ![r] = new]
    /\ UNCHANGED <<worker, recordings, saves, nextRecId, op, served, invoked, parser>>

\* saveRecording: getRecordings() resolved
SaveGet ==
    \E s \in saves :
        /\ s.phase = "get"
        /\ saves' = (saves \ {s}) \cup
                    {[s EXCEPT !.phase = "set", !.list = unshiftCapped(recordings, s.recording)]}
        /\ op' = "saveRecording" /\ UNCHANGED parser
        /\ UNCHANGED <<run, worker, activeRecording, recordings, nextRecId, served, invoked>>

\* saveRecording: chrome.storage.local.set resolved; the awaiting runTask goes on
\* to its broadcast and its finally block
SaveSet ==
    \E s \in saves :
        /\ s.phase = "set"
        /\ saves' = saves \ {s}
        /\ recordings' = s.list
        /\ op' = "saveRecording" /\ UNCHANGED parser
        /\ IF s.waiter # 0
           THEN Finally(s.waiter, run[s.waiter])
           ELSE UNCHANGED <<run, worker>>
        /\ UNCHANGED <<activeRecording, nextRecId, served, invoked>>

\* onMessage STOP_TASK
StopTask ==
    /\ abortController' = IF abortController # NoController
                          THEN [abortController EXCEPT !.aborted = TRUE]
                          ELSE abortController
    /\ isRunning' = FALSE
    /\ stopRecording(0)
    /\ run' = [r \in Runs |->
                IF Accepted(run[r]) THEN [run[r] EXCEPT !.stopped = TRUE] ELSE run[r]]
    /\ UNCHANGED <<op, served, invoked, parser>>

\* recording.steps.filter(s => s.success)
successfulSteps(recording) == SelectSeq(recording.steps, LAMBDA s : s.success)

\* onMessage REPLAY_RECORDING: runReplay(id) up to its first await
ReplayRecording(r) ==
    /\ NextSlot(r)
    /\ \E id \in 1..nextRecId :
        run' = [run EXCEPT ![r] =
                 IF isRunning
                 THEN Busy(run[r], "replay")
                 ELSE [run[r] EXCEPT !.kind = "replay", !.wired = TRUE,
                                     !.recording = [NoRecording EXCEPT !.id = id],
                                     !.pc = "getRecordingById"]]
    /\ UNCHANGED <<worker, recorder, op, served, invoked, parser>>

\* getRecordingById(id) resolved: not found, or isRunning = true
GetRecordingById(r) ==
    /\ run[r].kind = "replay" /\ run[r].pc = "getRecordingById"
    /\ LET found == {k \in 1..Len(recordings) : recordings[k].id = run[r].recording.id}
       IN IF found = {}
          THEN /\ run' = [run EXCEPT ![r] =
                      [@ EXCEPT !.pc = "done", !.outcome = "not found",
                                !.errorMsg = <<"Recording not found">>]]
               /\ UNCHANGED worker
          ELSE /\ run' = [run EXCEPT ![r] =
                      [@ EXCEPT !.pc = "getActiveTabId",
                                !.recording = recordings[CHOOSE k \in found :
                                                            \A j \in found : k <= j]]]
               /\ isRunning' = TRUE
               /\ UNCHANGED abortController
    /\ UNCHANGED <<recorder, op, served, invoked, parser>>

\* replayRecording: the loop head for step i (onStepStart, executeAction) or,
\* past the last step, onComplete
ReplayStep(rec, i) ==
    IF i < Len(successfulSteps(rec.recording))
    THEN Call(Call([rec EXCEPT !.i = i, !.pc = "executeAction", !.result = "none",
                               !.executed = @ + 1],
                   "onStepStart"), "executeAction")
    ELSE OnComplete([rec EXCEPT !.i = i], "")

ReplayFailedMsg(i) == <<"Replay failed at step ", ToString(i + 1), ": ", "result.error">>

\* replayRecording: callbacks.executeAction resolved with {success}
AfterReplayAction(rec, success) ==
    LET r1 == Call(rec, "onStepComplete")
    IN IF ~success
       THEN OnError([r1 EXCEPT !.failedAt = rec.i], ReplayFailedMsg(rec.i))
       ELSE ReplayStep(r1, rec.i + 1)

\* runReplay: its catch and finally blocks
ReplayCommit(r, new) ==
    /\ IF new.pc \in {"returned", "threw"}
       THEN Finally(r, new)
       ELSE run' = [run EXCEPT ![r] = new] /\ UNCHANGED worker
    /\ UNCHANGED <<recorder, op, served, invoked, parser>>

ReplayGetActiveTab(r) ==
    /\ run[r].kind = "replay" /\ run[r].pc = "getActiveTabId"
    /\ \E ok \in BOOLEAN :
        ReplayCommit(r, IF ok THEN ReplayStep(Fresh(run[r]), 0)
                        ELSE Reject(Fresh(run[r]), "No active tab found"))

\* executeActionOnTab settled for a replayed step
ReplayExecuteAction(r) ==
    /\ run[r].kind = "replay" /\ run[r].pc = "executeAction"
    /\ \E response \in {"success", "failure", "unreachable"} :
        LET rec == [Fresh(run[r]) EXCEPT !.result = response]
            action == successfulSteps(run[r].recording)[run[r].i + 1].action
        IN ReplayCommit(r,
              IF response # "success" THEN Reject(rec, "result.error")
              ELSE IF action \in NavigationKinds THEN [rec EXCEPT !.pc = "waitForPage"]
              ELSE AfterReplayAction(rec, TRUE))

ReplayWaitForPage(r) ==
    /\ run[r].kind = "replay" /\ run[r].pc = "waitForPage"
    /\ \E ok \in BOOLEAN :
        ReplayCommit(r,
            IF ok THEN AfterReplayAction(Fresh(run[r]), TRUE)
            ELSE Reject(Fresh(run[r]), "Content script failed to load."))

\* ─── runPlanner against callbacks that keep the PlannerCallbacks interface ───

\* the service worker and the recorder as their modules load, with the recordings
\* earlier sessions left in chrome.storage.local
InitBackground(stored) ==
    /\ isRunning = FALSE
    /\ abortController = NoController
    /\ activeRecording = NoRecording
    /\ recordings = stored
    /\ saves = {}
    /\ nextRecId = 1
    /\ op = "none"
    /\ served = 0
    /\ invoked = <<>>

\* the content script as it loads into a page whose ref-bearing elements are els
InitContent(els) ==
    /\ document = els
    /\ refCounter = 0
    /\ elementsByRef = <<>>
    /\ refsByElement = [el \in Elements |-> 0]
    /\ collected = {}
    /\ handed = <<>>
    /\ resolved = <<>>
    /\ body = Element(NoElement, "body", 0, <<>>)
    /\ taken = <<>>
    /\ stepResult = <<>>

InitWorker == InitBackground(<<>>) /\ InitContent(<<>>)

InitPlanner ==
    /\ InitWorker
    /\ \E impl \in Impls :
        run = [r \in Runs |->
                IF r = 1
                THEN StartPlanner([IdleRun EXCEPT !.kind = "planner", !.impl = impl])
                ELSE IdleRun]

NextPlanner ==
    \E r \in Runs :
        \/ GetSnapshot(r)
        \/ GetSnapshotRetry(r)
        \/ LlmChatContent(r)
        \/ LlmChatError(r)
        \/ ExecuteAction(r)
        \/ ErrorSnapshot(r)
        \/ VerifySnapshot(r)
        \/ VerifySnapshotRetry(r)
        \/ FinalSnapshot(r)
        \/ FinalSnapshotRetry(r)

SpecPlanner == InitPlanner /\ [][NextPlanner]_vars

\* runPlanner with a provider that reports the tokens of its calls
InitUsage ==
    /\ InitWorker
    /\ \E impl \in Impls :
        run = [r \in Runs |->
                IF r = 1
                THEN StartPlanner([IdleRun EXCEPT !.kind = "planner", !.impl = impl,
                                                  !.metered = TRUE])
                ELSE IdleRun]

SpecUsage == InitUsage /\ [][NextPlanner]_vars

\* runPlanner with the snapshots of the run told apart
InitRefs ==
    /\ InitWorker
    /\ \E impl \in Impls :
        run = [r \in Runs |->
                IF r = 1
                THEN StartPlanner([IdleRun EXCEPT !.kind = "planner", !.impl = impl,
                                                  !.tracked = TRUE])
                ELSE IdleRun]

SpecRefs == InitRefs /\ [][NextPlanner]_vars

\* ─── The live extension: side panel messages, runs, tab, storage ───

InitLive ==
    /\ InitWorker
    /\ run = [r \in Runs |-> IdleRun]

NextLive ==
    \/ StopTask
    \/ SaveGet
    \/ SaveSet
    \/ \E r \in Runs :
        \/ RunTask(r)
        \/ LoadSettings(r)
        \/ GetActiveTab(r)
        \/ GetSnapshot(r)
        \/ GetSnapshotRetry(r)
        \/ LlmChatContent(r)
        \/ LlmChatError(r)
        \/ ExecuteActionOnTab(r)
        \/ WaitForPage(r)
        \/ RecordStep(r)
        \* (no ErrorSnapshot: sendToTab throws a result with success === false,
        \* so runPlanner never sees a failed step here)
        \/ VerifySnapshot(r)
        \/ VerifySnapshotRetry(r)
        \/ FinalSnapshot(r)
        \/ FinalSnapshotRetry(r)
        \/ ReplayRecording(r)
        \/ GetRecordingById(r)
        \/ ReplayGetActiveTab(r)
        \/ ReplayExecuteAction(r)
        \/ ReplayWaitForPage(r)

SpecLive == InitLive /\ [][NextLive]_vars

\* ─── The recorder on its own: its exported functions called in any order ───

StartRecordingCall ==
    /\ nextRecId <= MaxStarted
    /\ activeRecording' = startRecording(nextRecId, 0)
    /\ nextRecId' = nextRecId + 1
    /\ op' = "startRecording" /\ UNCHANGED parser
    /\ UNCHANGED <<run, worker, recordings, saves, served, invoked>>

RecordStepCall ==
    /\ Len(activeRecording.steps) < MaxRecorded
    /\ \E success \in BOOLEAN :
        activeRecording' = recordStep(activeRecording, "click", success, 0)
    /\ op' = "recordStep" /\ UNCHANGED parser
    /\ UNCHANGED <<run, worker, recordings, saves, nextRecId, served, invoked>>

StopRecordingCall ==
    /\ stopRecording(0)
    /\ op' = "stopRecording" /\ UNCHANGED parser
    /\ UNCHANGED <<run, worker, served, invoked>>

InitRecorder ==
    /\ InitWorker
    /\ run = [r \in Runs |-> IdleRun]

NextRecorder ==
    \/ StartRecordingCall
    \/ RecordStepCall
    \/ StopRecordingCall
    \/ SaveGet
    \/ SaveSet

SpecRecorder == InitRecorder /\ [][NextRecorder]_vars

\* ─── replayRecording against callbacks that keep the ReplayCallbacks interface ───

ReplayRecordings ==
    {[id |-> 1, owner |-> 0, steps |-> st] :
        st \in SeqsUpTo([action : {"click", "type"}, success : BOOLEAN, by : {0}],
                        MaxReplayLen)}

\* callbacks.executeAction(step.action) resolved with a StepResult
ReplayAction(r) ==
    /\ run[r].kind = "replayer" /\ run[r].pc = "executeAction"
    /\ \E success \in BOOLEAN :
        Commit(r, AfterReplayAction(
                    [Fresh(run[r]) EXCEPT !.result = IF success THEN "success"
                                                     ELSE "failure"], success))
    /\ UNCHANGED <<served, invoked>>

\* replayRecording(recording, callbacks) up to its first await
StartReplay(recording) ==
    LET rec == ReplayStep([IdleRun EXCEPT !.kind = "replayer",
                                          !.recording = recording], 0)
    IN [rec EXCEPT !.pc = IF @ = "returned" THEN "done" ELSE @]

InitReplay ==
    /\ InitWorker
    /\ \E recording \in ReplayRecordings :
        run = [r \in Runs |-> IF r = 1 THEN StartReplay(recording) ELSE IdleRun]

NextReplay == \E r \in Runs : ReplayAction(r)

SpecReplay == InitReplay /\ [][NextReplay]_vars

\* ─── The parser on its own: snapshots, page changes, ref lookups ───

\* the state of the rest of the extension
extension == <<run, worker, recorder, op, served, invoked>>

RefTable ==
    [refCounter |-> refCounter, elementsByRef |-> elementsByRef,
     refsByElement |-> refsByElement]

\* the content script serves GET_SNAPSHOT
TakeSnapshot ==
    LET t == takeSnapshot(RefTable, collected, document) IN
    /\ refCounter' = t.refCounter
    /\ elementsByRef' = t.elementsByRef
    /\ refsByElement' = t.refsByElement
    /\ handed' = <<t.elementsByRef>> \o (IF handed = <<>> THEN <<>> ELSE <<handed[1]>>)
    /\ resolved' = <<>>
    /\ UNCHANGED <<document, collected, extension, body, taken>>
    /\ stepResult' = <<>>

\* the page inserts an element before position k
InsertElement ==
    /\ \E el \in Elements \ collected, k \in 1..(Len(document) + 1) :
        /\ \A j \in DOMAIN document : document[j] # el
        /\ document' = SubSeq(document, 1, k - 1) \o <<el>>
                            \o SubSeq(document, k, Len(document))
    /\ resolved' = <<>>
    /\ UNCHANGED <<refCounter, elementsByRef, refsByElement, collected, handed, extension, body, taken>>
    /\ stepResult' = <<>>

\* the page removes an element
RemoveElement ==
    /\ \E k \in DOMAIN document :
        document' = SubSeq(document, 1, k - 1) \o SubSeq(document, k + 1, Len(document))
    /\ resolved' = <<>>
    /\ UNCHANGED <<refCounter, elementsByRef, refsByElement, collected, handed, extension, body, taken>>
    /\ stepResult' = <<>>

\* a removed element that a snapshot gave a ref is reclaimed: its WeakRef derefs
\* to undefined and its WeakMap entry is gone
CollectElement ==
    /\ \E el \in Elements \ collected :
        /\ \A j \in DOMAIN document : document[j] # el
        /\ refsByElement[el] # 0
        /\ collected' = collected \cup {el}
        /\ refsByElement' = [refsByElement EXCEPT ![el] = 0]
    /\ resolved' = <<>>
    /\ UNCHANGED <<document, refCounter, elementsByRef, handed, extension, body, taken>>
    /\ stepResult' = <<>>

\* an action handler looks a ref up: resolveRef(ref)
ResolveRef ==
    /\ \E ref \in 1..MaxElements :
        resolved' = <<ref, resolveRef(elementsByRef, collected, ref)>>
    /\ UNCHANGED <<document, refCounter, elementsByRef, refsByElement, collected, handed, extension, body, taken>>
    /\ stepResult' = <<>>

\* the content script serves EXECUTE_ACTION; 'read' takes a snapshot
ContentExecuteAction ==
    /\ \E action \in Actions, value \in Values, editable \in BOOLEAN :
        /\ action.kind # "type" => ~editable
        /\ stepResult' =
            <<executeAction(action, resolveRef(elementsByRef, collected, action.ref),
                            value, editable)>>
        /\ IF action.kind = "read"
           THEN LET t == takeSnapshot(RefTable, collected, document) IN
                /\ refCounter' = t.refCounter
                /\ elementsByRef' = t.elementsByRef
                /\ refsByElement' = t.refsByElement
                /\ handed' = <<t.elementsByRef>>
                                \o (IF handed = <<>> THEN <<>> ELSE <<handed[1]>>)
           ELSE UNCHANGED <<refCounter, elementsByRef, refsByElement, handed>>
    /\ resolved' = <<>>
    /\ UNCHANGED <<document, collected, extension, body, taken>>

InitParser ==
    /\ InitWorker
    /\ run = [r \in Runs |-> IdleRun]

NextParser ==
    \/ TakeSnapshot
    \/ InsertElement
    \/ RemoveElement
    \/ CollectElement
    \/ ResolveRef

SpecParser == InitParser /\ [][NextParser]_vars

\* ─── The recording store on its own: save, delete, clear, one call at a time ───

\* a recording that stopRecording hands to saveRecording
StoredRecording(id) ==
    [id |-> id, owner |-> 0, steps |-> <<[action |-> "click", success |-> TRUE, by |-> 0]>>]

\* the n recordings of earlier sessions, newest first (ids stand for creation times)
OldStore(n) == [k \in 1..n |-> StoredRecording(0 - k)]

\* the ids deleteRecording is called with: the newest and the oldest old
\* recording, the first new one, one that is not stored
DeleteIds == {0 - 1, 0 - MAX_RECORDINGS, 1, MAX_RECORDINGS + 1}

SaveRecordingCall ==
    /\ saves = {}
    /\ nextRecId <= MaxStarted
    /\ saves' = {SaveOp(StoredRecording(nextRecId), 0)}
    /\ nextRecId' = nextRecId + 1
    /\ op' = "saveRecording" /\ UNCHANGED parser
    /\ UNCHANGED <<run, worker, activeRecording, recordings, served, invoked>>

DeleteRecordingCall ==
    /\ saves = {}
    /\ \E id \in DeleteIds : saves' = {DeleteOp(id)}
    /\ op' = "deleteRecording" /\ UNCHANGED parser
    /\ UNCHANGED <<run, worker, activeRecording, recordings, nextRecId, served, invoked>>

\* deleteRecording: getRecordings() resolved
DeleteGet ==
    \E s \in saves :
        /\ s.phase = "delete.get"
        /\ saves' = (saves \ {s}) \cup
                    {[s EXCEPT !.phase = "delete.set",
                               !.list = filterOut(recordings, s.recording.id)]}
        /\ op' = "deleteRecording" /\ UNCHANGED parser
        /\ UNCHANGED <<run, worker, activeRecording, recordings, nextRecId, served, invoked>>

\* deleteRecording: chrome.storage.local.set resolved
DeleteSet ==
    \E s \in saves :
        /\ s.phase = "delete.set"
        /\ saves' = saves \ {s}
        /\ recordings' = s.list
        /\ op' = "deleteRecording" /\ UNCHANGED parser
        /\ UNCHANGED <<run, worker, activeRecording, nextRecId, served, invoked>>

\* clearRecordings: chrome.storage.local.set resolved
ClearRecordingsCall ==
    /\ saves = {}
    /\ recordings' = <<>>
    /\ op' = "clearRecordings" /\ UNCHANGED parser
    /\ UNCHANGED <<run, worker, activeRecording, saves, nextRecId, served, invoked>>

InitStore ==
    /\ \E n \in {0, 1, MAX_RECORDINGS - 1, MAX_RECORDINGS} : InitBackground(OldStore(n))
    /\ InitContent(<<>>)
    /\ run = [r \in Runs |-> IdleRun]

NextStore ==
    \/ SaveRecordingCall
    \/ SaveGet
    \/ SaveSet
    \/ DeleteRecordingCall
    \/ DeleteGet
    \/ DeleteSet
    \/ ClearRecordingsCall

SpecStore == InitStore /\ [][NextStore]_vars

\* ─── Store operations called while others are in flight ───

MaxCalls == 2

\* a call of fn with id, and the ids of the store operations in flight at the call
Invocation(fn, id) == [fn |-> fn, id |-> id, during |-> {s.recording.id : s \in saves}]

\* stopRecording reaches saveRecording(recording): the task's recording is saved
\* whatever the message handlers have in flight
SaveRecordingDuring ==
    /\ Len(invoked) < MaxCalls
    /\ nextRecId <= MaxStarted
    /\ saves' = saves \cup {SaveOp(StoredRecording(nextRecId), 0)}
    /\ invoked' = Append(invoked, Invocation("saveRecording", nextRecId))
    /\ nextRecId' = nextRecId + 1
    /\ op' = "saveRecording" /\ UNCHANGED parser
    /\ UNCHANGED <<run, worker, activeRecording, recordings, served>>

\* onMessage DELETE_RECORDING: deleteRecording(payload.id) is called whatever is
\* in flight (no second call for an id while one is in flight)
DeleteRecordingDuring ==
    /\ Len(invoked) < MaxCalls
    /\ \E id \in DeleteIds :
        /\ \A s \in saves : s.recording.id # id
        /\ saves' = saves \cup {DeleteOp(id)}
        /\ invoked' = Append(invoked, Invocation("deleteRecording", id))
    /\ op' = "deleteRecording" /\ UNCHANGED parser
    /\ UNCHANGED <<run, worker, activeRecording, recordings, nextRecId, served>>

NextOverlap ==
    \/ SaveRecordingDuring
    \/ SaveGet
    \/ SaveSet
    \/ DeleteRecordingDuring
    \/ DeleteGet
    \/ DeleteSet

SpecOverlap == InitStore /\ [][NextOverlap]_vars

\* ─── The action executor on a page that loses elements ───

InitActions ==
    /\ InitBackground(<<>>)
    /\ InitContent([k \in 1..MaxElements |-> k])
    /\ run = [r \in Runs |-> IdleRun]

NextActions ==
    \/ TakeSnapshot
    \/ RemoveElement
    \/ CollectElement
    \/ ContentExecuteAction

SpecActions == InitActions /\ [][NextActions]_vars

\* ─── Snapshots of whole pages on their own ───

Button(el, text) == Element(el, "button", text, <<>>)
Div(children) == Element(NoElement, "div", 0, children)
Body(children) == Element(NoElement, "body", 0, children)

\* n role-less, non-interactive, unnamed wrappers around one element
RECURSIVE Wrapped(_, _)
Wrapped(n, el) == IF n = 0 THEN el ELSE Div(<<Wrapped(n - 1, el)>>)

\* body > div > ... > div > button "OK"
Chain(n) == Body(<<Wrapped(n, Button(1, 2))>>)

\* pages with one iframe: a same-origin document of one or two buttons, and
\* a document that cannot be accessed
FramePages ==
    { Body(<<Iframe(2, "document", <<Body(<<Button(1, 2)>>)>>)>>),
      Body(<<Iframe(2, "document", <<Body(<<Button(1, 2), Button(3, 2)>>)>>)>>),
      Body(<<Iframe(2, "null", <<>>)>>),
      Body(<<Iframe(2, "throws", <<>>)>>) }

\* the pages the tab may show
Pages ==
    { Body(<<>>) }
    \cup { Chain(n) : n \in 0..MaxWrappers }
    \cup { Body(<<Button(1, 2), Button(2, 100)>>),
           Body(<<Button(2, 100), Button(1, 2)>>),
           Body(<<Element(3, "h1", 5, <<>>), Div(<<Button(1, 2)>>), Button(2, 2)>>) }

\* SnapshotOptions: maxDepth and maxChars (12 and 30000 are the defaults)
Options == [maxDepth : {1, 12}, maxChars : {40, 30000}]

\* the tab navigates or the page rebuilds itself
LoadPage ==
    /\ \E p \in Pages : p # body /\ body' = p
    /\ UNCHANGED <<refCounter, elementsByRef, refsByElement, taken>>
    /\ UNCHANGED <<document, collected, handed, resolved, extension, stepResult>>

\* takeSnapshot(options)
TakeSnapshotOfBody ==
    /\ \E options \in Options :
        LET snapshot == PageSnapshot(body, options, RefTable, collected) IN
        /\ refCounter' = snapshot.table.refCounter
        /\ elementsByRef' = snapshot.table.elementsByRef
        /\ refsByElement' = snapshot.table.refsByElement
        /\ taken' = <<[page |-> body, options |-> options, snapshot |-> snapshot]>>
                        \o (IF taken = <<>> THEN <<>> ELSE <<taken[1]>>)
    /\ UNCHANGED <<body, document, collected, handed, resolved, extension, stepResult>>

InitSnapshot ==
    /\ InitWorker
    /\ run = [r \in Runs |-> IdleRun]

NextSnapshot ==
    \/ LoadPage
    \/ TakeSnapshotOfBody

SpecSnapshot == InitSnapshot /\ [][NextSnapshot]_vars

\* ─── Snapshots of pages that embed a document ───

\* the tab shows a page with an iframe
LoadFramePage ==
    /\ \E p \in FramePages : p # body /\ body' = p
    /\ UNCHANGED <<refCounter, elementsByRef, refsByElement, taken>>
    /\ UNCHANGED <<document, collected, handed, resolved, extension, stepResult>>

NextFrames ==
    \/ LoadFramePage
    \/ TakeSnapshotOfBody

SpecFrames == InitSnapshot /\ [][NextFrames]_vars

\* ─── Properties of the recorder ───

HasSuccessfulStep(recording) ==
    \E k \in DOMAIN recording.steps : recording.steps[k].success

\* C9. Recording success-gate: stopRecording clears the active recording; it
\* starts the save of that recording if and only if one of its steps succeeded
\* and otherwise leaves the store and the pending saves as they are; the store
\* changes only when a save completes, and then holds that recording (with all
\* its steps) at its head, so every stored recording has a successful step.
C9_SuccessGate ==
    [][/\ op' = "stopRecording" =>
            /\ activeRecording' = NoRecording
            /\ recordings' = recordings
            /\ IF activeRecording # NoRecording /\ HasSuccessfulStep(activeRecording)
               THEN /\ saves' # saves
                    /\ \A s \in saves' \ saves :
                          s.recording = activeRecording /\ s.phase = "get"
               ELSE saves' = saves
       /\ recordings' # recordings =>
            \E s \in saves \ saves' :
                /\ s.phase = "set"
                /\ recordings'[1] = s.recording
       /\ \A k \in DOMAIN recordings' : HasSuccessfulStep(recordings'[k])]_vars

C9_Witness ==
    /\ op = "stopRecording" /\ activeRecording = NoRecording
    /\ saves = {} /\ nextRecId = 3
    /\ Len(recordings) = 1
    /\ recordings[1].steps = <<[action |-> "click", success |-> FALSE, by |-> 0],
                               [action |-> "click", success |-> TRUE, by |-> 0]>>

\* ─── Properties of runPlanner ───

PlannerRuns == {r \in Runs : IsPlanner(r) /\ run[r].conversationHistory # <<>>}

\* run r took a step (STOP_TASK only marks it)
Stepped(r) == [run'[r] EXCEPT !.stopped = FALSE] # [run[r] EXCEPT !.stopped = FALSE]

\* C4. Context pinning: at every point of a run of runPlanner, index 0 of the
\* conversation is the system prompt and index 1, once present, is the original
\* task message, whatever was trimmed.
C4_ContextPinned ==
    \A r \in PlannerRuns :
        LET h == run[r].conversationHistory
        IN /\ h[1] = SystemMsg
           /\ Len(h) >= 2 => h[2] = TaskMsg

\* C5. Termination: runPlanner runs at most MAX_ITERATIONS (15) iterations and
\* acts on at most 15 plans; a run whose loop runs out ends with onError carrying
\* the 'Max iterations (15) reached' message, and no run that ends otherwise
\* carries that message.
C5_Termination ==
    /\ MaxIterationsMsg[2] = "15"
    /\ \A r \in PlannerRuns :
        /\ run[r].iteration <= MAX_ITERATIONS
        /\ run[r].acted <= MAX_ITERATIONS
        /\ run[r].pc # "done" => run[r].iteration < MAX_ITERATIONS
        /\ run[r].pc = "done" =>
              /\ run[r].iteration = MAX_ITERATIONS <=>
                    (run[r].outcome = "error" /\ run[r].errorMsg = MaxIterationsMsg)
              /\ run[r].iteration = MAX_ITERATIONS =>
                    (run[r].nError = 1 /\ run[r].nComplete = 0)

C5_Witness ==
    /\ run[1].pc = "done" /\ run[1].iteration = MAX_ITERATIONS
    /\ run[1].acted = MAX_ITERATIONS
    /\ run[1].errorMsg = MaxIterationsMsg

\* the content is a valid plan for the run's parsePlan and its steps are empty
CompletionSignal(r, response) ==
    /\ response # <<>>
    /\ parseError(run[r].impl, response[1]) = "ok"
    /\ response[1].steps = <<>>

\* C6. Completion signal: the step in which llm.chat resolves with a valid plan
\* whose steps are empty calls onComplete exactly once, with that plan's
\* reasoning, requests no model call, snapshot or action, and ends the run.
C6_CompletionSignal ==
    [][\A r \in Runs :
        (IsPlanner(r) /\ Stepped(r) /\ CompletionSignal(r, run'[r].response)) =>
            /\ run'[r].pc = "done" /\ run'[r].outcome = "complete"
            /\ run'[r].nComplete = 1 /\ run'[r].nError = 0
            /\ run'[r].completedWith = run'[r].response[1].reasoning
            /\ Cardinality({k \in DOMAIN run'[r].calls :
                              run'[r].calls[k] = "onComplete"}) = 1
            /\ \A k \in DOMAIN run'[r].calls :
                  run'[r].calls[k] \notin {"llm.chat", "getSnapshot", "executeAction"}]_vars

C6_Witness ==
    /\ run[1].pc = "done" /\ run[1].outcome = "complete"
    /\ run[1].iteration > 0
    /\ run[1].completedWith = "Nothing to do."

\* C7. Replan on failure: when step i of a plan fails no later step of the plan
\* is executed, exactly one user message (the error turn) is appended in that
\* iteration, and unless the bound is reached the next iteration calls the model.
C7_ReplanOnFailure ==
    \A r \in PlannerRuns :
        /\ run[r].failedAt >= 0 =>
              /\ run[r].executed = run[r].failedAt + 1
              /\ run[r].pc # "getSnapshot.error" =>
                    (run[r].pushed = 1 /\ run[r].lastTurn = "error")
        /\ run[r].owedPlan => run[r].pc # "done"

RiskyKinds == {"click", "navigate", "scroll"}

\* a checkpoint was opened in the current iteration: exactly the steps up to it
\* were executed, and once its snapshot is settled one verification turn is there
CheckpointHolds(r) ==
    run[r].verifiedAt >= 0 =>
        /\ run[r].executed = run[r].verifiedAt + 1
        /\ IF run[r].pc \in {"getSnapshot.verify", "getSnapshot.verify.retry"}
           THEN run[r].pushed = 0
           ELSE run[r].pushed = 1 /\ run[r].lastTurn = "checkpoint"

\* C8. Forced verification (unnamed/part_004): after a successful click, navigate
\* or scroll that is not the last step of its plan, the planner requests a
\* verification snapshot, executes no further step of the plan and appends one
\* verification turn, whatever needsVerification says.
C8_ForcedVerification ==
    [][\A r \in Runs :
        (IsPlanner(r) /\ run[r].impl = PlannerPart004) =>
            /\ (/\ run[r].pc = "executeAction" /\ Stepped(r)
                /\ run[r].plan[run[r].i + 1].kind \in RiskyKinds
                /\ run[r].i < Len(run[r].plan) - 1
                /\ run'[r].failedAt = -1 /\ run'[r].outcome # "rejected")
               => /\ run'[r].pc = "getSnapshot.verify"
                  /\ run'[r].verifiedAt = run[r].i
                  /\ run'[r].calls = <<"onStepComplete", "getSnapshot">>
            /\ CheckpointHolds(r)']_vars

C8_Witness ==
    /\ run[1].impl = PlannerPart004
    /\ run[1].pc = "getSnapshot.verify"
    /\ run[1].plan = <<Step("click", "false"), Step("type", "false")>>
    /\ run[1].verifiedAt = 0 /\ run[1].executed = 1
    /\ run[1].calls = <<"onStepComplete", "getSnapshot">>

\* ─── Properties of the live extension ───

LiveTask(r) == run[r].wired /\ run[r].kind = "task"

\* C1. In a live run an action whose executor result is {success: false} does
\* not end the run: the planner receives the failed StepResult and goes on to
\* the error turn (the snapshot for it is requested) and the next plan.
C1_FailedActionFedBack ==
    [][\A r \in Runs :
        (LiveTask(r) /\ Stepped(r) /\ run[r].pc = "executeAction"
            /\ run'[r].result = "failure") =>
            /\ run'[r].outcome = "none"
            /\ run'[r].pc \in {"getActiveTabUrl", "getSnapshot.error"}]_vars

\* a planner loop or a replay loop is running in this invocation
InLoop(rec) ==
    rec.wired /\ rec.pc \notin {"idle", "done", "loadSettings", "getRecordingById",
                                 "getActiveTabId", "stopRecording"}

\* C2. At most one task run or replay is in flight: a RUN_TASK or
\* REPLAY_RECORDING that arrives while an accepted run has not finished is
\* rejected with 'Already running a task', and never are two planner or replay
\* loops running.
C2_SingleRun ==
    [][/\ \A r \in Runs :
            (run[r].kind = "none" /\ run'[r].kind # "none"
                /\ \E q \in Runs : Accepted(run[q]))
            => (run'[r].outcome = "busy"
                /\ run'[r].errorMsg = <<"Already running a task">>)
       /\ Cardinality({r \in Runs : InLoop(run'[r])}) <= 1]_vars

\* C3. Cancellation: once STOP_TASK has been handled during a run, the steps the
\* run takes request no page action and no model call.
C3_Cancellation ==
    [][\A r \in Runs :
        (run[r].stopped /\ Stepped(r)) =>
            \A k \in DOMAIN run'[r].calls :
                run'[r].calls[k] \notin {"executeAction", "llm.chat"}]_vars

\* the executor's answer to the action run r has in flight
Answered(r) == IF run[r].pc = "executeAction" THEN run'[r].result ELSE run[r].result

\* the step of run r in which callbacks.executeAction returns or throws
CallbackEnds(r) ==
    /\ LiveTask(r) /\ Stepped(r)
    /\ \/ run[r].pc = "getActiveTabUrl"
       \/ /\ run[r].pc \in {"executeAction", "waitForPage"}
          /\ run'[r].pc \notin {"waitForPage", "getActiveTabUrl"}

\* C10. Every action executed during a live run, whether it succeeded or
\* failed, is appended to the active recording as one step carrying the
\* result's success flag, in execution order.
C10_EveryActionRecorded ==
    [][\A r \in Runs :
        (CallbackEnds(r) /\ Answered(r) \in {"success", "failure"}) =>
            /\ activeRecording # NoRecording
            /\ activeRecording' =
                  [activeRecording EXCEPT !.steps =
                      Append(@, [action |-> run[r].plan[run[r].i + 1].kind,
                                 success |-> (Answered(r) = "success"),
                                 by |-> r])]]_vars

\* C11. Recording ownership: every step of the active recording was executed by
\* the run that created the recording, a run's start does not replace the
\* recording of another run, and a run finalizes (clears, hands to
\* saveRecording) only the recording it created.
C11_RecordingOwnership ==
    [][/\ \A k \in DOMAIN activeRecording'.steps :
            activeRecording'.steps[k].by = activeRecording'.owner
       /\ (activeRecording # NoRecording /\ activeRecording' # NoRecording)
            => activeRecording'.id = activeRecording.id
       /\ \A r \in Runs :
            (Stepped(r) /\ activeRecording # NoRecording
                /\ activeRecording' = NoRecording)
            => activeRecording.owner = r
       /\ \A s \in saves' \ saves :
            s.waiter # 0 => s.recording.owner = s.waiter]_vars

IsReplay(r) == run[r].kind \in {"replay", "replayer"}

SuccessCount(recording) ==
    Cardinality({k \in DOMAIN recording.steps : recording.steps[k].success})

\* the k-th recorded step (from 1) whose success flag is true
RECURSIVE NthSuccess(_, _, _)
NthSuccess(steps, k, from) ==
    IF steps[from].success
    THEN IF k = 1 THEN from ELSE NthSuccess(steps, k - 1, from + 1)
    ELSE NthSuccess(steps, k, from + 1)

\* C12. Replay: replayRecording executes the recorded steps whose success flag
\* is true, in recorded order, and calls no model; the step that receives a
\* result with success false calls onError naming that step's index, executes
\* nothing more and does not call onComplete; when every step succeeded
\* onComplete is called exactly once and onError never.
C12_Replay ==
    [][\A r \in Runs : (IsReplay(r) /\ Stepped(r)) =>
        /\ \A k \in DOMAIN run'[r].calls : run'[r].calls[k] # "llm.chat"
        /\ run'[r].pc = "executeAction" =>
              /\ run'[r].executed <= SuccessCount(run'[r].recording)
              /\ run'[r].executed = run'[r].i + 1
              /\ successfulSteps(run'[r].recording)[run'[r].i + 1] =
                    run'[r].recording.steps[
                        NthSuccess(run'[r].recording.steps, run'[r].executed, 1)]
        /\ (run[r].pc = "executeAction" /\ run'[r].result = "failure") =>
              /\ run'[r].outcome = "error" /\ run'[r].nError = 1
              /\ run'[r].errorMsg = <<"Replay failed at step ", ToString(run[r].i + 1),
                                      ": ", "result.error">>
              /\ run'[r].nComplete = 0
              /\ \A k \in DOMAIN run'[r].calls : run'[r].calls[k] # "executeAction"
        /\ run'[r].outcome = "complete" =>
              /\ run'[r].nComplete = 1 /\ run'[r].nError = 0
              /\ run[r].i + 1 = SuccessCount(run[r].recording)
              /\ run[r].executed = SuccessCount(run[r].recording)]_vars

\* the step of run r in which llm.chat rejects inside part_004's callLLMWithRetry
ChatRejects(r) ==
    /\ IsPlanner(r) /\ run[r].impl = PlannerPart004 /\ ~run[r].wired
    /\ run[r].pc = "llm.chat" /\ Stepped(r) /\ run'[r].rejection # <<>>

\* the step retries: it calls the rate-limit observer and llm.chat again
Retries(r) == ChatRejects(r) /\ run'[r].pc = "llm.chat"

BackoffKinds == {"tpm", "rpm", "server"}

BackoffCap(kind) ==
    CASE kind = "tpm" -> 65000 [] kind = "rpm" -> 60000 [] kind = "server" -> 16000

FirstWait(kind) ==
    CASE kind = "tpm" -> 15000 [] kind = "rpm" -> 5000 [] kind = "server" -> 2000

\* C13. Backoff monotonicity: for retry attempts 0, 1, 2, ... classified as the
\* same kind, the wait backoffMs computes never decreases from one attempt to
\* the next and never exceeds the kind's cap (65000 ms for tpm, 60000 ms for
\* rpm, 16000 ms for server); the wait of attempt 0 is 15000, 5000 and 2000 ms;
\* and these are the waits every retry of a run hands to the observer.
C13_BackoffMonotonic ==
    [][/\ \A kind \in BackoffKinds :
            /\ backoffMs(kind, 0) = FirstWait(kind)
            /\ \A attempt \in 0..MAX_API_RETRIES :
                  /\ backoffMs(kind, attempt) <= backoffMs(kind, attempt + 1)
                  /\ backoffMs(kind, attempt) <= BackoffCap(kind)
       /\ \A r \in Runs : Retries(r) =>
            LET kind == run'[r].wait[1]
                waitMs == run'[r].wait[2]
            IN  /\ kind \in BackoffKinds
                /\ waitMs <= BackoffCap(kind)
                /\ run[r].attempt = 0 => waitMs = FirstWait(kind)
                /\ (run[r].wait # <<>> /\ run[r].wait[1] = kind)
                      => waitMs >= run[r].wait[2]]_vars

\* the tokens-per-minute wait has grown from 15000 ms to its cap
C13_Witness ==
    /\ run[1].pc = "llm.chat" /\ run[1].impl = PlannerPart004
    /\ run[1].wait = <<"tpm", 65000, MAX_API_RETRIES>>

\* C14. Transient-API retry bound: one callLLMWithRetry request calls llm.chat
\* at most MAX_API_RETRIES + 1 = 6 times; each retry is preceded by exactly one
\* call of the rate-limit observer, carrying the computed wait and the attempt
\* numbers 1, 2, ... in order; when the last allowed attempt fails the error
\* propagates, the run ends with exactly one onError and no step of that
\* iteration is executed.
C14_RetryBound ==
    [][\A r \in Runs :
        /\ (IsPlanner(r) /\ ~run'[r].wired) => run'[r].attempt + 1 <= 6
        /\ Retries(r) =>
              /\ run'[r].calls = <<"onRateLimit", "llm.chat">>
              /\ run'[r].attempt = run[r].attempt + 1
              /\ run'[r].wait[3] = run[r].attempt + 1
              /\ run'[r].wait[3] = IF run[r].wait = <<>> THEN 1 ELSE run[r].wait[3] + 1
              /\ run'[r].wait[2] = backoffMs(run'[r].wait[1], run[r].attempt)
              /\ run'[r].nError = 0 /\ run'[r].outcome = "none"
        /\ (ChatRejects(r) /\ run[r].attempt = MAX_API_RETRIES) =>
              /\ run'[r].pc = "done" /\ run'[r].outcome = "error"
              /\ run'[r].nError = 1 /\ run'[r].nComplete = 0
              /\ run'[r].errorMsg = <<"Failed to get plan: ", run'[r].rejection[1]>>
              /\ run'[r].calls = <<"onError">>
              /\ run'[r].executed = 0]_vars

\* the sixth llm.chat of one request has failed and ended the run
C14_Witness ==
    /\ run[1].pc = "done" /\ run[1].impl = PlannerPart004
    /\ run[1].attempt = MAX_API_RETRIES /\ run[1].rejection # <<>>
    /\ run[1].wait # <<>> /\ run[1].wait[3] = MAX_API_RETRIES
    /\ run[1].outcome = "error" /\ run[1].nError = 1

\* the status the provider reported in the message llm.chat rejected with
HttpStatus(msg) ==
    CASE msg \in { "API error 429: rate limit, input tokens per minute",
                   "API error 429: too many requests" } -> 429
      [] msg = "API error 503" -> 503
      [] msg = "API error 401: invalid key" -> 401
      [] msg = "API error 400: max_tokens is too large for the model to generate" -> 400

\* C15. Fatal API errors are not retried: when llm.chat fails with a provider
\* error that is neither a 429 nor a 500/502/503/529/overloaded condition (a
\* 400, 401 or 403 with any body), no further llm.chat call is made for the
\* request, the rate-limit observer is not invoked and the run ends with a
\* terminal error carrying the provider's message.
C15_FatalNotRetried ==
    [][\A r \in Runs :
        (ChatRejects(r) /\ HttpStatus(run'[r].rejection[1]) \in {400, 401, 403}) =>
            /\ run'[r].calls = <<"onError">>
            /\ run'[r].wait = run[r].wait
            /\ run'[r].pc = "done" /\ run'[r].outcome = "error"
            /\ run'[r].nError = 1
            /\ run'[r].errorMsg = <<"Failed to get plan: ", run'[r].rejection[1]>>]_vars

\* the step of run r in which part_004's getPlanFromLLM receives a model response
Responds(r) ==
    /\ IsPlanner(r) /\ run[r].impl = PlannerPart004 /\ ~run[r].wired
    /\ run[r].pc = "llm.chat" /\ Stepped(r) /\ run'[r].response # <<>>

\* ... and parsePlan throws on it
ParseFails(r) == Responds(r) /\ parseError004(run'[r].response[1]) # "ok"

\* C16. JSON retry bound: within one planning iteration getPlanFromLLM obtains
\* at most MAX_JSON_RETRIES + 1 = 3 model responses; each parse failure appends
\* the bad assistant output, and the next attempt is preceded by exactly one
\* corrective user message; the third consecutive parse failure ends the run
\* with a terminal error naming that last parse failure, and no step is
\* executed in that iteration.
C16_JsonRetryBound ==
    [][\A r \in Runs :
        /\ Responds(r) => run[r].jsonAttempt + 1 <= 3
        /\ (ParseFails(r) /\ run[r].jsonAttempt < 2) =>
              /\ run'[r].conversationHistory =
                    run[r].conversationHistory \o <<BadMsg, CorrectiveMsg>>
              /\ run'[r].calls = <<"llm.chat">> /\ run'[r].pc = "llm.chat"
              /\ run'[r].jsonAttempt = run[r].jsonAttempt + 1
              /\ run'[r].outcome = "none"
        /\ (ParseFails(r) /\ run[r].jsonAttempt = 2) =>
              /\ run'[r].conversationHistory = Append(run[r].conversationHistory, BadMsg)
              /\ run'[r].pc = "done" /\ run'[r].outcome = "error"
              /\ run'[r].nError = 1 /\ run'[r].nComplete = 0
              /\ run'[r].errorMsg =
                    <<"Failed to get plan: ", "LLM returned invalid JSON after ", "3",
                      " attempts. Last error: ", parseError004(run'[r].response[1])>>
              /\ run'[r].calls = <<"onError">>
              /\ run'[r].executed = 0]_vars

\* three unparseable outputs in a row have ended the run
C16_Witness ==
    /\ run[1].pc = "done" /\ run[1].impl = PlannerPart004
    /\ run[1].parseFailures = 3 /\ run[1].jsonAttempt = 2
    /\ run[1].outcome = "error" /\ run[1].errorMsg[1] = "Failed to get plan: "
    /\ Len(run[1].errorMsg) = 5

RECURSIVE CountCorrective(_)
CountCorrective(h) ==
    IF h = <<>> THEN 0
    ELSE (IF h[1].role = "user" /\ includesNotValidJSON(h[1]) THEN 1 ELSE 0)
            + CountCorrective(Tail(h))

\* C17. Corrective-message cleanup: when a valid plan is obtained after one or
\* two parse failures, none of the corrective ('not valid JSON') user messages
\* pushed in that retry sequence is left in the conversation, and its last
\* message is the valid assistant output.
C17_CorrectiveCleanup ==
    [][\A r \in Runs :
        (Responds(r) /\ ~ParseFails(r) /\ run[r].jsonAttempt > 0) =>
            LET h == run[r].conversationHistory
                left == run'[r].conversationHistory
            IN  /\ left[Len(left)] = PlanMsg
                /\ CountCorrective(left) = CountCorrective(h) - run[r].jsonAttempt]_vars

\* run r is part_004's runPlanner driven through the PlannerCallbacks interface
Part004(r) == IsPlanner(r) /\ run[r].impl = PlannerPart004 /\ ~run[r].wired

\* C18. State acquisition at the start of an iteration: a getSnapshot that
\* fails at the top of the loop is retried exactly once; when the retry fails
\* too the run ends with onError 'Cannot read page ...' and llm.chat is not
\* called in that iteration; getSnapshot is never called more than twice at
\* the loop top.
C18_StateAcquisition ==
    [][\A r \in Runs : (Part004(r) /\ Stepped(r)) =>
        /\ (run[r].pc = "getSnapshot" /\ run'[r].snapshot = "failed") =>
              /\ run'[r].pc = "getSnapshot.retry"
              /\ run'[r].calls = <<"getSnapshot">>
              /\ run'[r].outcome = "none"
              /\ run'[r].conversationHistory = run[r].conversationHistory
        /\ run[r].pc = "getSnapshot.retry" =>
              \A k \in DOMAIN run'[r].calls : run'[r].calls[k] # "getSnapshot"
        /\ (run[r].pc = "getSnapshot.retry" /\ run'[r].snapshot = "failed") =>
              /\ run'[r].pc = "done" /\ run'[r].outcome = "error"
              /\ run'[r].nError = 1 /\ run'[r].nComplete = 0
              /\ run'[r].calls = <<"onError">>
              /\ run'[r].errorMsg[1] = "Cannot read page: "
              /\ run'[r].iteration = run[r].iteration
              /\ run'[r].conversationHistory = run[r].conversationHistory
        /\ (run[r].pc \in {"getSnapshot", "getSnapshot.retry"}
                /\ run'[r].snapshot = "ok") =>
              /\ run'[r].pc = "llm.chat" /\ run'[r].calls = <<"llm.chat">>]_vars

\* the snapshot failed twice at the top of the loop and the run ended
C18_Witness ==
    /\ run[1].pc = "done" /\ run[1].impl = PlannerPart004
    /\ run[1].outcome = "error" /\ run[1].nError = 1
    /\ run[1].errorMsg = CannotReadMsg("getSnapshot failed")
    /\ run[1].calls = <<"onError">> /\ run[1].snapshot = "failed"

\* C19. A snapshot failure in any iteration after the first never ends the
\* run: the planner goes on with a placeholder snapshot; only in iteration 1 is
\* a twice-failed snapshot a terminal error.
C19_MidRunSnapshotFailure ==
    [][\A r \in Runs :
        (Part004(r) /\ Stepped(r) /\ run'[r].outcome = "error"
            /\ run'[r].errorMsg = CannotReadMsg("getSnapshot failed"))
        => run[r].iteration = 0]_vars

\* C20. Ref invalidation: a ref handed out by snapshot N does not resolve
\* (resolveRef returns null) once snapshot N+1 has been taken, even when the
\* page and the element are unchanged between the two snapshots.
C20_RefInvalidation ==
    [][(resolved' # <<>> /\ resolved' # resolved /\ Len(handed) = 2
            /\ resolved'[1] \in DOMAIN handed[2])
        => resolved'[2] = NoElement]_vars

\* C21. Serialization budget: for every page tree and every maxChars, the tree
\* string takeSnapshot returns is at most maxChars characters long.
C21_SerializationBudget ==
    \A k \in DOMAIN taken : taken[k].snapshot.length <= taken[k].options.maxChars

\* C22. Container collapsing: for a page that is a chain of N role-less,
\* non-interactive, unnamed wrappers around a single button, the serialized
\* tree is exactly one line, the button's, for every N, also when N is larger
\* than the configured maxDepth.
C22_ContainerCollapsing ==
    \A k \in DOMAIN taken : \A n \in 0..MaxWrappers :
        (taken[k].page = Chain(n) /\ taken[k].options.maxChars = 30000) =>
            /\ ~taken[k].snapshot.empty
            /\ Len(taken[k].snapshot.lines) = 1
            /\ taken[k].snapshot.lines[1].label = "button"
            /\ taken[k].snapshot.lines[1].name = 2
            /\ taken[k].snapshot.lines[1].ref > 0

\* C23. Snapshot idempotence: two consecutive takeSnapshot calls with the same
\* options on an unchanged page return the same url, title and
\* interactiveCount and the same tree string, ref labels included.
C23_SnapshotIdempotence ==
    (/\ Len(taken) = 2
     /\ taken[1].page = taken[2].page
     /\ taken[1].options = taken[2].options)
    => LET a == taken[1].snapshot
           b == taken[2].snapshot
       IN /\ a.url = b.url /\ a.title = b.title
          /\ a.interactiveCount = b.interactiveCount
          /\ a.empty = b.empty /\ a.lines = b.lines /\ a.length = b.length

\* the same three-element page was snapshotted twice in a row, after another
\* page had left its refs in the WeakMap
C23_Witness ==
    /\ Len(taken) = 2
    /\ taken[1].page = taken[2].page /\ taken[1].options = taken[2].options
    /\ Len(taken[1].snapshot.lines) = 4
    /\ taken[1].snapshot.lines[3].ref = 2
    /\ refsByElement[2] = 3

\* the element the action's ref resolved to when executeAction was called
Target(action) == resolveRef(elementsByRef, collected, action.ref)

NewestFirst(list) == \A k \in 1..(Len(list) - 1) : list[k].id > list[k + 1].id

\* C25. Recording store cap: after any sequence of saveRecording,
\* deleteRecording and clearRecordings the store holds at most MAX_RECORDINGS
\* (50) recordings, newest first; saving into a store that already holds 50
\* puts the new recording first and evicts exactly the oldest one.
C25_StoreCap ==
    [][/\ Len(recordings') <= 50
       /\ NewestFirst(recordings')
       /\ (op' = "saveRecording" /\ recordings' # recordings) =>
            /\ Len(recordings') = IF Len(recordings) = 50 THEN 50 ELSE Len(recordings) + 1
            /\ Tail(recordings') = SubSeq(recordings, 1, Len(recordings') - 1)
            /\ \A k \in DOMAIN recordings : recordings'[1].id > recordings[k].id]_vars

\* a recording was saved into a full store: the oldest one, -50, is gone
C25_Witness ==
    /\ Len(recordings) = MAX_RECORDINGS
    /\ recordings[1].id = 1
    /\ recordings[MAX_RECORDINGS].id = 0 - (MAX_RECORDINGS - 1)
    /\ saves = {}

\* C26. Token accounting: after every model call that reports usage, calls
\* whose output fails to parse included, onUsage is called with totals equal to
\* the sums of inputTokens and outputTokens over all model calls of the run so
\* far; the reported totals never decrease during a run.
C26_TokenAccounting ==
    [][\A r \in Runs : (IsPlanner(r) /\ ~run[r].wired /\ Stepped(r)) =>
        /\ run'[r].totalUsage.input >= run[r].totalUsage.input
        /\ run'[r].totalUsage.output >= run[r].totalUsage.output
        /\ run'[r].spent # run[r].spent =>
              /\ run'[r].reported = <<run'[r].spent.input, run'[r].spent.output>>
              /\ run'[r].calls[1] = "onUsage"
              /\ \A k \in 2..Len(run'[r].calls) : run'[r].calls[k] # "onUsage"
        /\ run'[r].spent = run[r].spent =>
              \A k \in DOMAIN run'[r].calls : run'[r].calls[k] # "onUsage"]_vars

\* the second usage report of a run came with output that does not parse
C26_Witness ==
    /\ run[1].metered /\ run[1].response = <<NotJson>>
    /\ run[1].reported = <<6, 2>>
    /\ run[1].spent = [input |-> 6, output |-> 2]

\* C27. A missing credential is found before the run starts: runTask with an
\* empty API key broadcasts an error and returns before any snapshot request,
\* model call or action; it never sets isRunning and starts no recording.
C27_MissingKeyPreflight ==
    [][\A r \in Runs :
        /\ (run[r].pc = "loadSettings" /\ run'[r].errorMsg = NoApiKeyMsg) =>
              /\ run'[r].pc = "done"
              /\ run'[r].calls = <<>> /\ run'[r].executed = 0
              /\ run'[r].conversationHistory = <<>>
              /\ isRunning' = isRunning /\ abortController' = abortController
              /\ <<recorder, served, invoked>>' = <<recorder, served, invoked>>
        /\ (run[r].kind = "task" /\ run[r].errorMsg = NoApiKeyMsg) =>
              run'[r] = run[r]
        /\ (run[r].kind = "task" /\ run[r].pc # "loadSettings"
               /\ run'[r].errorMsg = NoApiKeyMsg) => run[r].errorMsg = NoApiKeyMsg]_vars

\* a task was refused for its missing key and the extension is still free
C27_Witness ==
    /\ run[1].kind = "task" /\ run[1].errorMsg = NoApiKeyMsg /\ run[1].pc = "done"
    /\ ~isRunning /\ activeRecording = NoRecording /\ nextRecId = 1 /\ served = 0

RECURSIVE CountTask(_)
CountTask(h) ==
    IF h = <<>> THEN 0
    ELSE (IF h[1] = TaskMsg THEN 1 ELSE 0) + CountTask(Tail(h))

\* between the first executeAction of a plan and the user turn that follows it
InSteps(rec) ==
    rec.pc \in {"executeAction", "getSnapshot.error", "getSnapshot.verify",
                "getSnapshot.verify.retry", "getSnapshot.final",
                "getSnapshot.final.retry"}

\* C28. Every iteration that executes at least one step appends exactly one
\* user message after the assistant plan: the error turn, the checkpoint turn,
\* or, when all steps finished without an early stop, a final verification turn
\* that names the last step of the plan. The task message is appended only in
\* iteration 0.
C28_OneTurnPerIteration ==
    [][\A r \in Runs : (Part004(r) /\ Stepped(r)) =>
        LET old == run[r]
            new == run'[r]
            h == new.conversationHistory
        IN /\ InSteps(old) =>
                 \/ InSteps(new) /\ new.iteration = old.iteration /\ new.pushed = 0
                        /\ new.conversationHistory = old.conversationHistory
                 \/ /\ new.iteration = old.iteration + 1
                    /\ old.executed >= 1 /\ old.pushed = 0 /\ new.pushed = 1
                    /\ h[Len(h)] = FeedbackMsg /\ h[Len(h) - 1] = PlanMsg
                    /\ new.lastTurn \in {"error", "checkpoint", "final"}
                    /\ new.lastTurn = "error" <=> old.failedAt # -1
                    /\ new.lastTurn = "checkpoint" <=> old.verifiedAt # -1
                    /\ new.lastTurn = "final" => old.executed = Len(old.plan)
                    /\ new.lastTurn = "final" => new.described = Len(old.plan) - 1
                    /\ new.lastTurn # "final" => new.described = old.i
           /\ ~InSteps(old) => new.pushed = old.pushed \/ new.pushed = 0
           /\ CountTask(h) # CountTask(old.conversationHistory) =>
                 /\ old.iteration = 0 /\ new.iteration = 0
                 /\ CountTask(old.conversationHistory) = 0 /\ CountTask(h) = 1
                 /\ h = <<SystemMsg, TaskMsg>>]_vars

\* a two-step plan ran to its end in a later iteration and the final turn
\* names its second step
C28_Witness ==
    /\ Part004(1) /\ run[1].iteration >= 2 /\ run[1].pc = "getSnapshot"
    /\ run[1].executed = 2 /\ run[1].pushed = 1
    /\ run[1].lastTurn = "final" /\ run[1].described = 1

\* the positions of a callback in the calls of one step of the run
Positions(calls, name) == {k \in DOMAIN calls : calls[k] = name}

\* C29. The steps of a plan are executed strictly in plan order, one at a time,
\* and the executed steps always form a contiguous prefix of plan.steps; for
\* each executed step i, onStepStart(step, i) precedes executeAction(step.action),
\* which precedes onStepComplete(step, result), and step i + 1 is not started
\* before onStepComplete of step i.
C29_StepOrder ==
    [][\A r \in Runs : (run[r].kind = "planner" /\ Stepped(r)) =>
        LET old == run[r]
            new == run'[r]
            calls == new.calls
        IN /\ Cardinality(Positions(calls, "onStepStart")) <= 1
           /\ Cardinality(Positions(calls, "executeAction")) <= 1
           /\ Cardinality(Positions(calls, "onStepComplete")) <= 1
           \* a step is started by onStepStart followed at once by executeAction,
           \* and it is step 0 of a new plan or the successor of the completed step
           /\ \A k \in Positions(calls, "onStepStart") :
                 /\ k + 1 = Len(calls) /\ calls[k + 1] = "executeAction"
                 /\ new.pc = "executeAction"
                 /\ k > 1
                 /\ \/ calls[k - 1] = "onPlan" /\ new.i = 0 /\ new.executed = 1
                    \/ /\ calls[k - 1] = "onStepComplete"
                       /\ old.pc = "executeAction" /\ new.plan = old.plan
                       /\ new.i = old.i + 1 /\ new.executed = old.executed + 1
           /\ \A k \in Positions(calls, "executeAction") :
                 k > 1 /\ calls[k - 1] = "onStepStart"
           \* the awaited executeAction settles before anything else happens
           /\ old.pc = "executeAction" =>
                 /\ calls[1] = "onStepComplete"
                 /\ new.pc = "executeAction" \/ new.executed = old.executed
           /\ Positions(calls, "onStepComplete") # {} => old.pc = "executeAction"
           \* the executed steps are steps 0..i of the plan
           /\ new.pc = "executeAction" =>
                 /\ new.i < Len(new.plan) /\ new.executed = new.i + 1
                 /\ Positions(calls, "onStepStart") # {}]_vars

\* the second step of a plan was started right after the first completed
C29_Witness ==
    /\ run[1].kind = "planner" /\ run[1].pc = "executeAction"
    /\ run[1].calls = <<"onStepComplete", "onStepStart", "executeAction">>
    /\ run[1].i = 1 /\ run[1].executed = 2 /\ Len(run[1].plan) = 2

\* the first two messages and the 12 most recent ones, in their order
PinnedAndRecent(h) ==
    IF Len(h) <= 14 THEN h
    ELSE SubSeq(h, 1, 2) \o SubSeq(h, Len(h) - 11, Len(h))

\* C30. After the trim at the end of every iteration the conversation has at
\* most 14 messages, and the messages from index 2 on are exactly the 12 most
\* recent messages in their original order: nothing inside the recent window
\* is dropped or reordered.
C30_TrimWindow ==
    [][\A r \in Runs :
        (Part004(r) /\ Stepped(r) /\ run'[r].iteration = run[r].iteration + 1) =>
            LET untrimmed == Append(run[r].conversationHistory, FeedbackMsg)
                h == run'[r].conversationHistory
            IN /\ Len(h) <= 14
               /\ h = PinnedAndRecent(untrimmed)
               /\ Len(untrimmed) > 14 =>
                     /\ Len(h) = 14
                     /\ \A k \in 3..14 : h[k] = untrimmed[Len(untrimmed) - 14 + k]]_vars

\* an iteration ended with a trim that removed messages: the window now starts
\* with a user turn, which an untrimmed conversation never has at index 2
C30_Witness ==
    /\ Part004(1) /\ run[1].pc = "getSnapshot" /\ run[1].pushed = 1
    /\ Len(run[1].conversationHistory) = 14
    /\ run[1].conversationHistory[3] = FeedbackMsg

\* C31. No step whose action kind is outside click, type, select, scroll,
\* navigate, read, wait, and no step without an action, is ever passed to
\* executeAction: a response containing such a step is a parse failure of the
\* whole plan.
C31_OnlyValidKindsExecuted ==
    \A r \in Runs : IsPlanner(r) =>
        /\ \A k \in DOMAIN run[r].plan : run[r].plan[k].kind \in validKinds
        /\ run[r].pc = "executeAction" =>
              run[r].plan[run[r].i + 1].kind \in validKinds

SafeKinds == {"type", "select", "read", "wait"}

\* every step is of a kind that is safe to chain and asks for no verification
SafeSteps(steps, flags) ==
    /\ steps # <<>>
    /\ \A k \in DOMAIN steps :
          steps[k].kind \in SafeKinds /\ steps[k].needsVerification \in flags

\* C32. Safe chaining (unnamed/part_004): a plan whose steps are all of kind
\* type, select, read or wait with needsVerification false or omitted, and
\* whose actions all succeed, executes every step with no getSnapshot between
\* steps, followed by exactly one verification snapshot after the last step.
C32_SafeChaining ==
    [][\A r \in Runs : (Part004(r) /\ Stepped(r)) =>
        LET old == run[r]
            new == run'[r]
            snapshots == Cardinality(Positions(new.calls, "getSnapshot"))
        IN \* the plan as the model wrote it is accepted with every flag false
           /\ (old.pc = "llm.chat" /\ new.response # <<>>) =>
                 LET c == new.response[1]
                 IN (parseError(new.impl, c) = "ok"
                       /\ SafeSteps(c.steps, {"false", "absent"})) =>
                        /\ new.pc = "executeAction" /\ snapshots = 0
                        /\ Len(new.plan) = Len(c.steps)
                        /\ SafeSteps(new.plan, {"false"})
           \* a step that succeeded is followed by the next step, the last one by
           \* the final verification snapshot
           /\ (old.pc = "executeAction" /\ SafeSteps(old.plan, {"false"})
                 /\ new.failedAt = -1) =>
                 IF old.i < Len(old.plan) - 1
                 THEN /\ new.pc = "executeAction" /\ new.i = old.i + 1
                      /\ new.plan = old.plan /\ snapshots = 0
                 ELSE /\ new.pc = "getSnapshot.final" /\ snapshots = 1
                      /\ new.executed = Len(old.plan) /\ new.pushed = 0
           \* the verification pass: the snapshot is asked for again only when it
           \* threw, and one final turn ends the iteration
           /\ (old.pc = "getSnapshot.final" /\ SafeSteps(old.plan, {"false"})) =>
                 \/ /\ new.pc = "getSnapshot.final.retry" /\ snapshots = 1
                    /\ new.iteration = old.iteration /\ new.pushed = 0
                 \/ /\ new.iteration = old.iteration + 1
                    /\ new.pushed = 1 /\ new.lastTurn = "final"
           /\ (old.pc = "getSnapshot.final.retry" /\ SafeSteps(old.plan, {"false"})) =>
                 /\ new.iteration = old.iteration + 1
                 /\ new.pushed = 1 /\ new.lastTurn = "final"]_vars

\* both steps of a plan that omitted needsVerification ran back to back and the
\* final verification snapshot is being taken
C32_Witness ==
    /\ Part004(1) /\ run[1].pc = "getSnapshot.final"
    /\ run[1].plan = <<Step("type", "false"), Step("wait", "false")>>
    /\ run[1].executed = 2 /\ run[1].verifiedAt = -1 /\ run[1].failedAt = -1
    /\ run[1].calls = <<"onStepComplete", "getSnapshot">>

\* C33. For every successful type action, on a native input or textarea and on
\* a content-editable element alike, an input event and then a change event are
\* dispatched on the element after its value or text has been mutated, in that
\* order.
C33_TypeFiresInputThenChange ==
    [][(stepResult' # <<>> /\ stepResult' # stepResult) =>
        LET r == stepResult'[1]
            el == Target(r.action)
            n == Len(r.events)
        IN (r.action.kind = "type" /\ r.success /\ (isTextField(el) \/ r.editable)) =>
              /\ r.after = (IF r.action.clear THEN "" ELSE r.before) \o r.action.text
              /\ n >= 2 /\ r.events[n - 1] = "input" /\ r.events[n] = "change"]_vars

\* C40. A type action reports success only if the target's value or text was
\* changed to contain the given text: typing into a resolved element that is
\* neither an input, a textarea nor content-editable is reported as a failure.
C40_TypeSuccessMeansTyped ==
    [][(stepResult' # <<>> /\ stepResult' # stepResult) =>
        LET r == stepResult'[1]
            el == Target(r.action)
        IN (r.action.kind = "type" /\ r.success) =>
              /\ isTextField(el) \/ r.editable
              /\ r.after = (IF r.action.clear THEN "" ELSE r.before) \o r.action.text]_vars

\* the iframe of a page of FramePages
FrameOf(page) == page.children[1]

\* the elements of the nested document that would show if it were inline
NestedElements(page) ==
    IF FrameOf(page).frame # "document" THEN {}
    ELSE {FrameOf(page).children[1].children[k].el :
            k \in DOMAIN FrameOf(page).children[1].children}

\* C34. Nested documents: for a same-origin iframe every visible element of the
\* nested document that would appear if it were inline (such as a single button
\* that is the only child of the iframe's body) appears in the tree beneath the
\* iframe node; an iframe whose document cannot be accessed appears as exactly
\* one leaf node with no children.
C34_NestedDocuments ==
    \A n \in DOMAIN taken :
        LET page == taken[n].page
            lines == taken[n].snapshot.lines
            refs == taken[n].snapshot.table.refsByElement
        IN (page \in FramePages /\ taken[n].options = [maxDepth |-> 12, maxChars |-> 30000]) =>
              /\ Len(lines) >= 1 /\ lines[1].label = "iframe"
              /\ IF FrameOf(page).frame = "document"
                 THEN \A e \in NestedElements(page) :
                        \E k \in 2..Len(lines) :
                            /\ lines[k].label = "button" /\ lines[k].indent > lines[1].indent
                            /\ lines[k].ref = refs[e]
                 ELSE Len(lines) = 1

TerminalCallbacks == {"onComplete", "onError"}

\* C35. Every run of runPlanner that returns invokes exactly one terminal
\* callback, onComplete or onError, exactly once and never both, and no onPlan,
\* onStepStart, onStepComplete, onUsage or onRateLimit callback is invoked
\* after it.
C35_OneTerminalCallback ==
    [][\A r \in Runs : (run[r].kind = "planner" /\ Stepped(r)) =>
        LET old == run[r]
            new == run'[r]
            calls == new.calls
            terminal == {k \in DOMAIN calls : calls[k] \in TerminalCallbacks}
        IN \* nothing happens in a run that has ended
           /\ old.pc # "done"
           /\ old.nComplete = 0 /\ old.nError = 0
           \* a terminal callback is the last thing the run does
           /\ terminal # {} =>
                 /\ terminal = {Len(calls)}
                 /\ new.pc = "done"
           \* the run returned: one terminal callback, the one its outcome names
           /\ (new.pc = "done" /\ new.outcome # "rejected") =>
                 /\ terminal = {Len(calls)}
                 /\ new.nComplete + new.nError = 1
                 /\ new.outcome = "complete" =>
                       calls[Len(calls)] = "onComplete" /\ new.nComplete = 1
                 /\ new.outcome = "error" =>
                       calls[Len(calls)] = "onError" /\ new.nError = 1
                 /\ new.outcome \in {"complete", "error"}
           /\ new.pc # "done" => new.nComplete = 0 /\ new.nError = 0]_vars

\* a run that acted on a plan returned through onComplete
C35_Witness ==
    /\ run[1].kind = "planner" /\ run[1].pc = "done" /\ run[1].outcome = "complete"
    /\ run[1].nComplete = 1 /\ run[1].nError = 0 /\ run[1].acted >= 1
    /\ run[1].calls = <<"onPlan", "onComplete">>

\* index 0 is the only system message and the messages after it alternate
\* user, assistant, ..., beginning and ending with a user message
Alternates(h) ==
    /\ Len(h) >= 2 /\ Len(h) % 2 = 0
    /\ h[1].role = "system"
    /\ \A k \in 2..Len(h) :
          h[k].role = (IF k % 2 = 0 THEN "user" ELSE "assistant")

\* C36. In every conversation passed to llm.chat, index 0 is the only system
\* message and the messages after it strictly alternate user, assistant,
\* user, ..., starting and ending with a user message; this holds after
\* JSON-retry recovery and after trimming.
C36_RolesAlternate ==
    \A r \in Runs :
        (IsPlanner(r) /\ run[r].pc = "llm.chat") => Alternates(run[r].conversationHistory)

RefKinds == {"click", "type", "select"}

\* C37. Whenever the planner executes a ref-bearing action (click, type,
\* select), the content script's ref table is the one built by the snapshot
\* whose text the model was last shown before it produced that plan: no other
\* snapshot (the loop-top snapshot of a later iteration, a read action earlier
\* in the same batch) has rebuilt the ref table in between.
C37_RefsFromShownSnapshot ==
    \A r \in Runs :
        (run[r].kind = "planner" /\ run[r].tracked /\ run[r].pc = "executeAction"
            /\ run[r].plan[run[r].i + 1].kind \in RefKinds) =>
                run[r].table = run[r].shown

\* C38. Within one snapshot the ref table is a bijection: distinct elements
\* receive distinct refs, the refs are exactly e1..en with no gaps, resolveRef(r)
\* returns the element that was assigned r, and every ref printed in the
\* serialized tree resolves to the element of its line.
C38_RefBijection ==
    taken # <<>> =>
        LET t == taken[1].snapshot.table
            lines == taken[1].snapshot.lines
            n == t.refCounter
        IN /\ RefTable = t
           /\ DOMAIN t.elementsByRef = 1..n
           /\ \A a, b \in 1..n : t.elementsByRef[a] = t.elementsByRef[b] => a = b
           /\ \A a \in 1..n :
                 /\ t.elementsByRef[a] \in Elements
                 /\ resolveRef(elementsByRef, collected, a) = t.elementsByRef[a]
                 /\ t.refsByElement[t.elementsByRef[a]] = a
           /\ \A k \in DOMAIN lines :
                 /\ lines[k].label \in {"button", "heading", "iframe"} => lines[k].ref > 0
                 /\ lines[k].ref > 0 =>
                       /\ lines[k].ref \in 1..n
                       /\ resolveRef(elementsByRef, collected, lines[k].ref) = lines[k].el

\* the page was rebuilt with its two buttons in the other order: the second
\* snapshot numbers them anew, against what the WeakMap still held
C38_Witness ==
    /\ Len(taken) = 2
    /\ taken[2].snapshot.table.elementsByRef = <<1, 2>>
    /\ taken[1].snapshot.table.elementsByRef = <<2, 1>>
    /\ Len(taken[1].snapshot.lines) = 3
    /\ taken[1].snapshot.lines[2].ref = 1 /\ taken[1].snapshot.lines[2].el = 2


Stored(id) == \E k \in 1..Len(recordings) : recordings[k].id = id

\* C39: when a saveRecording and a deleteRecording of a different id are in flight
\* at the same time, then once both have returned the store holds the saved
\* recording and does not hold the deleted one.
C39_StoreOperationsAtomic ==
    (/\ Len(invoked) = 2
     /\ saves = {}
     /\ invoked[2].during # {}
     /\ {invoked[1].fn, invoked[2].fn} = {"saveRecording", "deleteRecording"}
     /\ invoked[1].id # invoked[2].id)
    => LET saved == IF invoked[1].fn = "saveRecording" THEN invoked[1].id ELSE invoked[2].id
           deleted == IF invoked[1].fn = "deleteRecording" THEN invoked[1].id
                      ELSE invoked[2].id
       IN Stored(saved) /\ ~Stored(deleted)

====
